---- MODULE Spec2Model ----
(***************************************************************************)
(* Model of the HTTP server of http-server.cpp: the accept loop, the       *)
(* per-connection thread handleClient, HttpRequest::parse,                 *)
(* RequestHandler::handle and HttpResponse::sendResponse / sendRaw.        *)
(*                                                                         *)
(* A byte is a one-character string; NUL stands for the byte 0 and VT for   *)
(* the byte 11 (vertical tab).  A C++                                       *)
(* std::string or char buffer is a sequence of bytes.  Positions are       *)
(* 1-based here; std::string::npos is 0.                                   *)
(***************************************************************************)
EXTENDS Integers, Sequences, FiniteSets, TLC

\* ------------------------------------------------------------------ bytes

NUL == "NUL"
VT == "VT"
CRLFCRLF == <<"\r", "\n", "\r", "\n">>

Range(s) == {s[i] : i \in 1..Len(s)}

\* std::string::substr(pos): the bytes from 1-based position p to the end.
SubstrFrom(s, p) == SubSeq(s, p, Len(s))

\* std::string::find(pat): the least position where pat occurs, 0 when none.
Find(s, pat) ==
    LET hits == {i \in 1..(Len(s) - Len(pat) + 1) : SubSeq(s, i, i + Len(pat) - 1) = pat}
    IN  IF hits = {} THEN 0 ELSE CHOOSE i \in hits : \A j \in hits : i <= j

\* path.rfind(prefix, 0) == 0: prefix test.
StartsWith(s, prefix) ==
    Len(s) >= Len(prefix) /\ SubSeq(s, 1, Len(prefix)) = prefix

\* recv(client_fd, buffer, sizeof(buffer) - 1, 0): the bytes received are
\* stored from the start of the array, the rest of the array is left as it is.
\* An array is written without its trailing zero bytes.
Overlay(old, bytes) == bytes \o SubstrFrom(old, Len(bytes) + 1)

\* buffer[length] = '\0'
Terminated(buf, length) ==
    SubSeq(buf, 1, length) \o <<NUL>> \o SubstrFrom(buf, length + 2)

\* std::string(const char*): the bytes before the first NUL.
CString(buf) ==
    LET z == Find(buf, <<NUL>>)
    IN  IF z = 0 THEN buf ELSE SubSeq(buf, 1, z - 1)

UpperToLower ==
    [c \in {"A","B","C","D","E","F","G","H","I","J","K","L","M","N","O","P","Q","R","S","T","U","V","W","X","Y","Z"} |->
       CASE c = "A" -> "a" [] c = "B" -> "b" [] c = "C" -> "c" [] c = "D" -> "d"
         [] c = "E" -> "e" [] c = "F" -> "f" [] c = "G" -> "g" [] c = "H" -> "h"
         [] c = "I" -> "i" [] c = "J" -> "j" [] c = "K" -> "k" [] c = "L" -> "l"
         [] c = "M" -> "m" [] c = "N" -> "n" [] c = "O" -> "o" [] c = "P" -> "p"
         [] c = "Q" -> "q" [] c = "R" -> "r" [] c = "S" -> "s" [] c = "T" -> "t"
         [] c = "U" -> "u" [] c = "V" -> "v" [] c = "W" -> "w" [] c = "X" -> "x"
         [] c = "Y" -> "y" [] c = "Z" -> "z"]

\* ::tolower on one byte.
tolower(c) == IF c \in DOMAIN UpperToLower THEN UpperToLower[c] ELSE c

\* A variant of ToLowerStr that stores the header name as it was sent.
ToLowerStrAsSent(s) == s

\* std::transform(key.begin(), key.end(), key.begin(), ::tolower)
ToLowerStr(s) == [i \in 1..Len(s) |-> tolower(s[i])]

\* isspace in the "C" locale (the bytes operator>> and strtol skip): space
\* and the bytes 9 to 13.
IsSpace(c) == c \in {" ", "\t", "\n", VT, "\f", "\r"}

DigitVal ==
    [c \in {"0","1","2","3","4","5","6","7","8","9"} |->
       CASE c = "0" -> 0 [] c = "1" -> 1 [] c = "2" -> 2 [] c = "3" -> 3 [] c = "4" -> 4
         [] c = "5" -> 5 [] c = "6" -> 6 [] c = "7" -> 7 [] c = "8" -> 8 [] c = "9" -> 9]

DigitChar == <<"0","1","2","3","4","5","6","7","8","9">>

IntMax == 2147483647

IntMinDigits == <<"2", "1", "4", "7", "4", "8", "3", "6", "4", "8">>

\* operator<< of a size_t: the decimal digits of n.
RECURSIVE ToDecimal(_)
ToDecimal(n) ==
    IF n < 10 THEN <<DigitChar[n + 1]>>
    ELSE ToDecimal(n \div 10) \o <<DigitChar[(n % 10) + 1]>>

\* The digits of s from position i on, accumulated as strtol does; the
\* result is -1 once the value leaves the range of int.
RECURSIVE AccDigits(_, _, _)
AccDigits(s, i, acc) ==
    IF i > Len(s) \/ s[i] \notin DOMAIN DigitVal THEN acc
    ELSE IF acc > (IntMax - DigitVal[s[i]]) \div 10 THEN -1
    ELSE AccDigits(s, i + 1, acc * 10 + DigitVal[s[i]])

\* std::stoi(s): leading white space is skipped, then an optional sign, then
\* digits; what follows the digits is ignored.  No digit: std::invalid_argument;
\* a value outside int: std::out_of_range.  [ok |-> FALSE] stands for the throw.
\* The least int is the one value whose magnitude is not an int: it is
\* recognised by its digits after the leading zeros.
stoi(s) ==
    LET nonsp == {i \in 1..Len(s) : ~IsSpace(s[i])}
        b     == IF nonsp = {} THEN Len(s) + 1
                 ELSE CHOOSE i \in nonsp : \A j \in nonsp : i <= j
        neg   == b <= Len(s) /\ s[b] = "-"
        d     == IF b <= Len(s) /\ s[b] \in {"-", "+"} THEN b + 1 ELSE b
        mag   == AccDigits(s, d, 0)
        digs  == {i \in d..Len(s) : \A j \in d..i : s[j] \in DOMAIN DigitVal}
        zeros == {i \in digs : \A j \in d..i : s[j] = "0"}
        first == d + Cardinality(zeros)
        last  == d + Cardinality(digs) - 1
    IN  IF d > Len(s) \/ s[d] \notin DOMAIN DigitVal THEN [ok |-> FALSE, val |-> 0]
        ELSE IF mag = -1 /\ neg /\ SubSeq(s, first, last) = IntMinDigits
             THEN [ok |-> TRUE, val |-> (0 - IntMax) - 1]
        ELSE IF mag = -1 THEN [ok |-> FALSE, val |-> 0]
        ELSE [ok |-> TRUE, val |-> IF neg THEN 0 - mag ELSE mag]

\* ------------------------------------------------------ HttpRequest::parse

\* A default-constructed HttpRequest.  headers is a function from lowercase
\* names to values (std::map<std::string, std::string>).
EmptyRequest ==
    [method |-> <<>>, path |-> <<>>, version |-> <<>>, headers |-> <<>>, body |-> <<>>]

\* The lines std::getline takes from a stream holding s: each ends at a "\n"
\* (dropped); bytes after the last "\n" are a final line when there are any.
RECURSIVE GetLines(_)
GetLines(s) ==
    IF s = <<>> THEN <<>>
    ELSE LET nl == Find(s, <<"\n">>)
         IN  IF nl = 0 THEN <<s>>
             ELSE <<SubSeq(s, 1, nl - 1)>> \o GetLines(SubstrFrom(s, nl + 1))

\* The white-space separated words operator>> extracts from s, in order.
RECURSIVE Words(_)
Words(s) ==
    LET nonsp == {i \in 1..Len(s) : ~IsSpace(s[i])}
    IN  IF nonsp = {} THEN <<>>
        ELSE LET b  == CHOOSE i \in nonsp : \A j \in nonsp : i <= j
                 sp == {i \in b..Len(s) : IsSpace(s[i])}
                 e  == IF sp = {} THEN Len(s) + 1
                       ELSE CHOOSE i \in sp : \A j \in sp : i <= j
             IN  <<SubSeq(s, b, e - 1)>> \o Words(SubstrFrom(s, e))

Word(ws, k) == IF k <= Len(ws) THEN ws[k] ELSE <<>>

\* line.back() == '\r' ? line.pop_back().  (An empty line is handled by
\* HeaderLoop: line.back() is undefined there.)
StripCR(line) ==
    IF line # <<>> /\ line[Len(line)] = "\r" THEN SubSeq(line, 1, Len(line) - 1) ELSE line

\* headers[key] = value
MapPut(h, key, value) ==
    [k \in DOMAIN h \cup {key} |-> IF k = key THEN value ELSE h[k]]

\* One pass of the header loop over the stripped line.
HeaderLine(h, line) ==
    LET pos == Find(line, <<":", " ">>)
    IN  IF pos = 0 THEN h
        ELSE MapPut(h, ToLowerStr(SubSeq(line, 1, pos - 1)), SubstrFrom(line, pos + 2))

\* while (std::getline(header_stream, line)) { ... } over the lines after the
\* request line, starting from the map h.
RECURSIVE HeaderLoop(_, _)
HeaderLoop(h, lines) ==
    IF lines = <<>> THEN h
    ELSE HeaderLoop(HeaderLine(h, StripCR(Head(lines))), Tail(lines))

\* Whether the header loop calls line.back() on an empty line, which is
\* undefined behaviour.
HasEmptyLine(lines) == \E i \in 1..Len(lines) : lines[i] = <<>>

\* HttpRequest::parse up to its read loop, on the bytes of the first read.
\*   status "empty": no separator, the empty request is returned;
\*   status "throw": std::stoi threw on the content-length value;
\*   status "ok":    request.body holds the rest of raw_request.
\* ub: the header loop met an empty line.
ParseHead(buffer) ==
    LET raw_request    == CString(buffer)
        header_end     == Find(raw_request, CRLFCRLF)
        header_section == SubSeq(raw_request, 1, header_end - 1)
        lines          == GetLines(header_section)
        request_line   == IF lines = <<>> THEN <<>> ELSE Head(lines)
        ws             == Words(request_line)
        header_lines   == IF lines = <<>> THEN <<>> ELSE Tail(lines)
        headers        == HeaderLoop(<<>>, header_lines)
        clkey          == <<"c", "o", "n", "t", "e", "n", "t", "-", "l", "e", "n", "g", "t", "h">>
        cl             == IF clkey \in DOMAIN headers THEN stoi(headers[clkey])
                          ELSE [ok |-> TRUE, val |-> 0]
        body           == SubstrFrom(raw_request, header_end + 4)
    IN  IF header_end = 0
        THEN [status |-> "empty", ub |-> FALSE, request |-> EmptyRequest,
              content_length |-> 0, already_read |-> 0]
        ELSE IF ~cl.ok
        THEN [status |-> "throw", ub |-> HasEmptyLine(header_lines), request |-> EmptyRequest,
              content_length |-> 0, already_read |-> 0]
        ELSE [status |-> "ok", ub |-> HasEmptyLine(header_lines),
              request |-> [method |-> Word(ws, 1), path |-> Word(ws, 2),
                           version |-> Word(ws, 3), headers |-> headers, body |-> body],
              content_length |-> cl.val, already_read |-> Len(body)]

\* --------------------------------------- HttpResponse::sendResponse, sendRaw

\* A variant of sendResponse: the one of the older revision
\* (src/http-server.cpp), which writes no Connection header.
sendResponseOld(status, content_type, body, should_close) ==
    <<"H", "T", "T", "P", "/", "1", ".", "1", " ">> \o status \o <<"\r", "\n">>
      \o <<"C", "o", "n", "t", "e", "n", "t", "-", "T", "y", "p", "e", ":", " ">> \o content_type \o <<"\r", "\n">>
      \o <<"C", "o", "n", "t", "e", "n", "t", "-", "L", "e", "n", "g", "t", "h", ":", " ">> \o ToDecimal(Len(body)) \o <<"\r", "\n">>
      \o <<"\r", "\n">> \o body

\* The bytes sendResponse hands to send().
sendResponse(status, content_type, body, should_close) ==
    <<"H", "T", "T", "P", "/", "1", ".", "1", " ">> \o status \o <<"\r", "\n">>
      \o <<"C", "o", "n", "t", "e", "n", "t", "-", "T", "y", "p", "e", ":", " ">> \o content_type \o <<"\r", "\n">>
      \o <<"C", "o", "n", "t", "e", "n", "t", "-", "L", "e", "n", "g", "t", "h", ":", " ">> \o ToDecimal(Len(body)) \o <<"\r", "\n">>
      \o (IF should_close THEN <<"C", "o", "n", "n", "e", "c", "t", "i", "o", "n", ":", " ", "c", "l", "o", "s", "e", "\r", "\n">>
          ELSE <<"C", "o", "n", "n", "e", "c", "t", "i", "o", "n", ":", " ", "k", "e", "e", "p", "-", "a", "l", "i", "v", "e", "\r", "\n">>)
      \o <<"\r", "\n">> \o body

\* The bytes sendRaw hands to send(): raw.c_str(), raw.size().
sendRaw(raw) == raw

\* ------------------------------------------------- RequestHandler::handle

GET == <<"G", "E", "T">>
POST == <<"P", "O", "S", "T">>
EchoPrefix == <<"/", "e", "c", "h", "o", "/">>
FilesPrefix == <<"/", "f", "i", "l", "e", "s", "/">>
Status200 == <<"H", "T", "T", "P", "/", "1", ".", "1", " ", "2", "0", "0", " ", "O", "K", "\r", "\n", "\r", "\n">>
Status201 == <<"H", "T", "T", "P", "/", "1", ".", "1", " ", "2", "0", "1", " ", "C", "r", "e", "a", "t", "e", "d", "\r", "\n", "\r", "\n">>
Status404 == <<"H", "T", "T", "P", "/", "1", ".", "1", " ", "4", "0", "4", " ", "N", "o", "t", " ", "F", "o", "u", "n", "d", "\r", "\n", "\r", "\n">>
Status500 == <<"H", "T", "T", "P", "/", "1", ".", "1", " ", "5", "0", "0", " ", "I", "n", "t", "e", "r", "n", "a", "l", " ", "S", "e", "r", "v", "e", "r", " ", "E", "r", "r", "o", "r", "\r", "\n", "\r", "\n">>

\* A variant of Route whose echo rule does not test the method.
RouteEchoAnyMethod(request) ==
    LET method == request.method
        path   == request.path
    IN  IF method = GET /\ path = <<"/">> THEN "root"
        ELSE IF StartsWith(path, EchoPrefix) THEN "echo"
        ELSE IF method = GET /\ path = <<"/", "u", "s", "e", "r", "-", "a", "g", "e", "n", "t">> THEN "user-agent"
        ELSE IF method = GET /\ StartsWith(path, FilesPrefix) THEN "get-file"
        ELSE IF method = POST /\ StartsWith(path, FilesPrefix) THEN "post-file"
        ELSE "default"

\* A variant of Route that answers a request without a method like GET /.
RouteEmptyToRoot(request) ==
    LET method == request.method
        path   == request.path
    IN  IF method = <<>> \/ (method = GET /\ path = <<"/">>) THEN "root"
        ELSE IF method = GET /\ StartsWith(path, EchoPrefix) THEN "echo"
        ELSE IF method = GET /\ path = <<"/", "u", "s", "e", "r", "-", "a", "g", "e", "n", "t">> THEN "user-agent"
        ELSE IF method = GET /\ StartsWith(path, FilesPrefix) THEN "get-file"
        ELSE IF method = POST /\ StartsWith(path, FilesPrefix) THEN "post-file"
        ELSE "default"

\* The branch of the if / else-if chain of handle that a request takes.
Route(request) ==
    LET method == request.method
        path   == request.path
    IN  IF method = GET /\ path = <<"/">> THEN "root"
        ELSE IF method = GET /\ StartsWith(path, EchoPrefix) THEN "echo"
        ELSE IF method = GET /\ path = <<"/", "u", "s", "e", "r", "-", "a", "g", "e", "n", "t">> THEN "user-agent"
        ELSE IF method = GET /\ StartsWith(path, FilesPrefix) THEN "get-file"
        ELSE IF method = POST /\ StartsWith(path, FilesPrefix) THEN "post-file"
        ELSE "default"

\* path.substr(std::string("/files/").length())
FileName(path) == SubstrFrom(path, Len(FilesPrefix) + 1)

\* The file system as the requests can reach it.  base_dir (--directory) is
\* the directory /srv/data: BasePath holds the names on the way from the root
\* down to it.  base_dir exists and holds regular files only; its ancestors
\* hold, besides the way down to base_dir, only the regular files uploads put
\* there; the server may write in all of them.  files is a function from file
\* keys to contents: the key of a file of base_dir is its name, the key of a
\* file in the n-th ancestor is n times "../" and its name.
BasePath == << <<"s", "r", "v">>, <<"d", "a", "t", "a">> >>

\* NAME_MAX: the most bytes of one component of a path.
NameMax == 255

\* The components of a path: the byte strings between its "/" bytes.
RECURSIVE Components(_)
Components(name) ==
    LET sl == Find(name, <<"/">>)
    IN  IF sl = 0 THEN <<name>>
        ELSE <<SubSeq(name, 1, sl - 1)>> \o Components(SubstrFrom(name, sl + 1))

RECURSIVE UpPrefix(_)
UpPrefix(n) == IF n = 0 THEN <<>> ELSE <<".", ".", "/">> \o UpPrefix(n - 1)

\* The path walk of the kernel, one component c from the place w:
\*   w.at = "dir":  the directory w.up levels above base_dir (the parent of
\*                  the root is the root);
\*   w.at = "file": the entry with key w.key of that directory, a regular
\*                  file or nothing;
\*   w.at = "none": the walk failed (ENOTDIR, ENOENT, ENAMETOOLONG).
WalkStep(w, c) ==
    IF w.at # "dir" THEN [at |-> "none", up |-> 0, key |-> <<>>]
    ELSE IF c = <<>> \/ c = <<".">> THEN w
    ELSE IF c = <<".", ".">>
         THEN [w EXCEPT !.up = IF @ < Len(BasePath) THEN @ + 1 ELSE @]
    ELSE IF Len(c) > NameMax THEN [at |-> "none", up |-> 0, key |-> <<>>]
    ELSE IF w.up > 0 /\ c = BasePath[Len(BasePath) - w.up + 1]
         THEN [w EXCEPT !.up = @ - 1]
    ELSE [at |-> "file", up |-> w.up, key |-> UpPrefix(w.up) \o c]

\* What base_dir + "/" + name names.
Resolve(name) ==
    LET cs == Components(name)
        W[i \in 0..Len(cs)] ==
            IF i = 0 THEN [at |-> "dir", up |-> 0, key |-> <<>>]
            ELSE WalkStep(W[i - 1], cs[i])
    IN  W[Len(cs)]

\* The key of the file base_dir + "/" + name names (when it names one).
FileKey(name) == Resolve(name).key

\* base_dir + "/" + name names a directory.
IsDirectory(name) == Resolve(name).at = "dir"

\* std::ifstream file(filename, std::ios::binary); file.is_open()
\* (a directory opens for reading and reads as no bytes).
CanOpenRead(files, name) ==
    \/ IsDirectory(name)
    \/ Resolve(name).at = "file" /\ FileKey(name) \in DOMAIN files

\* oss << file.rdbuf(); oss.str()
ReadAll(files, name) ==
    IF Resolve(name).at = "file" /\ FileKey(name) \in DOMAIN files
    THEN files[FileKey(name)] ELSE <<>>

\* A variant of CanOpenWrite for which every open succeeds.
CanOpenWriteAlways(files, name) == TRUE

\* std::ofstream out_file(full_path, std::ios::binary); out_file.is_open():
\* the path names a regular file or a new entry of an existing directory.
CanOpenWrite(files, name) == Resolve(name).at = "file"

\* A variant of Truncate that empties every file of the directory.
TruncateAll(files, name) == [k \in DOMAIN files \cup {FileKey(name)} |-> <<>>]

\* A variant of Truncate: the file is opened, created when absent, and keeps
\* what it holds (a stream opened without truncation).
OpenKeeps(files, name) == MapPut(files, FileKey(name), ReadAll(files, name))

\* Opening for writing creates the file or truncates it.
Truncate(files, name) == MapPut(files, FileKey(name), <<>>)

\* out_file.write(body.c_str(), body.size()); out_file.close(): the stream
\* was opened at offset 0 and writes there, over what the file holds by now
\* (nothing, unless another stream wrote since this one truncated the file).
WriteAll(files, name, body) ==
    MapPut(files, FileKey(name), body \o SubstrFrom(ReadAll(files, name), Len(body) + 1))

\* The bytes handle sends for a request that does not take the POST branch.
Respond(request, should_close, files) ==
    LET r == Route(request)
        ua == <<"u", "s", "e", "r", "-", "a", "g", "e", "n", "t">>
    IN  CASE r = "root" -> sendRaw(Status200)
          [] r = "echo" ->
               sendResponse(<<"2", "0", "0", " ", "O", "K">>, <<"t", "e", "x", "t", "/", "p", "l", "a", "i", "n">>,
                            SubstrFrom(request.path, Len(EchoPrefix) + 1), should_close)
          [] r = "user-agent" ->
               sendResponse(<<"2", "0", "0", " ", "O", "K">>, <<"t", "e", "x", "t", "/", "p", "l", "a", "i", "n">>,
                            IF ua \in DOMAIN request.headers THEN request.headers[ua]
                            ELSE <<"U", "n", "k", "n", "o", "w", "n">>, should_close)
          [] r = "get-file" ->
               IF ~CanOpenRead(files, FileName(request.path)) THEN sendRaw(Status404)
               ELSE sendResponse(<<"2", "0", "0", " ", "O", "K">>, <<"a", "p", "p", "l", "i", "c", "a", "t", "i", "o", "n", "/", "o", "c", "t", "e", "t", "-", "s", "t", "r", "e", "a", "m">>,
                                 ReadAll(files, FileName(request.path)), should_close)
          [] OTHER -> sendRaw(Status404)

\* A variant of ShouldClose that closes unless the client asks for keep-alive.
ShouldCloseUnlessKeepAlive(request) ==
    LET k == <<"c", "o", "n", "n", "e", "c", "t", "i", "o", "n">>
    IN  ~(k \in DOMAIN request.headers /\ request.headers[k] = <<"k", "e", "e", "p", "-", "a", "l", "i", "v", "e">>)

\* A variant of ShouldClose that ignores the connection header.
ShouldCloseNever(request) == FALSE

\* handleClient: conn_it != request.headers.end() && conn_it->second == "close"
ShouldClose(request) ==
    LET k == <<"c", "o", "n", "n", "e", "c", "t", "i", "o", "n">>
    IN  k \in DOMAIN request.headers /\ request.headers[k] = <<"c", "l", "o", "s", "e">>

\* A variant of NeedMore that stops one byte early.
NeedMoreOffByOne(already, content_len) == already + 1 < content_len

\* HttpRequest::parse: while (already_read < content_length)
NeedMore(already, content_len) == already < content_len

\* ------------------------------------------------------------ the clients

\* The connections the clients open; the thread that serves connection c is
\* session c.
Conn == {1, 2}

\* char buffer[4096] of handleClient, char more[4096] of parse.
BufSize == 4096

\* An upload of 4 bytes whose header block is padded to BufSize - 3 bytes:
\* the request is 2 bytes longer than the most a first read returns.
LongRequest ==
    <<"P", "O", "S", "T", " ", "/", "f", "i", "l", "e", "s", "/", "a", " ", "H", "T", "T", "P", "/", "1", ".", "1", "\r", "\n", "C", "o", "n", "t", "e", "n", "t", "-", "L", "e", "n", "g", "t", "h", ":", " ", "4", "\r", "\n", "X", "-", "P", "a", "d", ":", " ">>
        \o [i \in 1..(BufSize - 57) |-> "p"] \o <<"\r", "\n", "\r", "\n", "w", "x", "y", "z">>

\* The byte streams a client may send as one request.
Menu ==
    << <<"G", "E", "T", " ", "/", " ", "H", "T", "T", "P", "/", "1", ".", "1", "\r", "\n", "\r", "\n">>,
       <<"G", "E", "T", " ", "/", "e", "c", "h", "o", "/", "h", "i", " ", "H", "T", "T", "P", "/", "1", ".", "1", "\r", "\n", "C", "o", "n", "n", "e", "c", "t", "i", "o", "n", ":", " ", "c", "l", "o", "s", "e", "\r", "\n", "\r", "\n">>,
       <<"P", "O", "S", "T", " ", "/", "f", "i", "l", "e", "s", "/", "a", " ", "H", "T", "T", "P", "/", "1", ".", "1", "\r", "\n", "C", "o", "n", "t", "e", "n", "t", "-", "L", "e", "n", "g", "t", "h", ":", " ", "2", "\r", "\n", "\r", "\n", "x", "y">>,
       <<"G", "E", "T", " ", "/", "f", "i", "l", "e", "s", "/", "a", " ", "H", "T", "T", "P", "/", "1", ".", "1", "\r", "\n", "\r", "\n">>,
       <<"P", "O", "S", "T", " ", "/", "f", "i", "l", "e", "s", "/", "a", " ", "H", "T", "T", "P", "/", "1", ".", "1", "\r", "\n", "C", "o", "n", "t", "e", "n", "t", "-", "L", "e", "n", "g", "t", "h", ":", " ", "2", "\r", "\n", "\r", "\n", NUL, "z">>,
       <<"P", "O", "S", "T", " ", "/", "f", "i", "l", "e", "s", "/", "a", " ", "H", "T", "T", "P", "/", "1", ".", "1", "\r", "\n", "C", "o", "n", "t", "e", "n", "t", "-", "L", "e", "n", "g", "t", "h", ":", " ", "z", "\r", "\n", "\r", "\n">>,
       <<"P", "O", "S", "T", " ", "/", "f", "i", "l", "e", "s", "/", "a", " ", "H", "T", "T", "P", "/", "1", ".", "1", "\r", "\n", "C", "o", "n", "n", "e", "c", "t", "i", "o", "n", ":", " ", "c", "l", "o", "s", "e", "\r", "\n", "C", "o", "n", "t", "e", "n", "t", "-", "L", "e", "n", "g", "t", "h", ":", " ", "3", "\r", "\n", "\r", "\n", "q">>,
       <<"P", "O", "S", "T", " ", "/", "f", "i", "l", "e", "s", "/", " ", "H", "T", "T", "P", "/", "1", ".", "1", "\r", "\n", "C", "o", "n", "n", "e", "c", "t", "i", "o", "n", ":", " ", "c", "l", "o", "s", "e", "\r", "\n", "\r", "\n">>,
       <<"G", "E", "T", " ", "/", "\n", "\n", "\r", "\n", "\r", "\n">>,
       <<"P", "O", "S", "T", " ", "/", "f", "i", "l", "e", "s", "/", "a", " ", "H", "T", "T", "P", "/", "1", ".", "1", "\r", "\n", "C", "o", "n", "t", "e", "n", "t", "-", "L", "e", "n", "g", "t", "h", ":", " ", "2", "\r", "\n", "\r", "\n", "\r", "\n">>,
       <<"G", "E", "T", " ", "/", "e", "c", "h", "o", "/", " ", "H", "T", "T", "P", "/", "1", ".", "1", "\r", "\n", "\r", "\n">>,
       <<"G", "E", "T", " ", "/", "e", "c", "h", "o", "/", "a", " ", "b", " ", "H", "T", "T", "P", "/", "1", ".", "1", "\r", "\n", "\r", "\n">>,
       <<"G", "E", "T", " ", "/", "u", "s", "e", "r", "-", "a", "g", "e", "n", "t", " ", "H", "T", "T", "P", "/", "1", ".", "1", "\r", "\n", "U", "s", "e", "r", "-", "A", "g", "e", "n", "t", ":", " ", "a", ":", " ", "b", "\r", "\n", "\r", "\n">>,
       <<"G", "E", "T", " ", "/", "u", "s", "e", "r", "-", "a", "g", "e", "n", "t", " ", "H", "T", "T", "P", "/", "1", ".", "1", "\r", "\n", "u", "s", "e", "r", "-", "a", "g", "e", "n", "t", ":", " ", "a", ":", " ", "b", "\r", "\n", "\r", "\n">>,
       <<"G", "E", "T", " ", "/", "u", "s", "e", "r", "-", "a", "g", "e", "n", "t", " ", "H", "T", "T", "P", "/", "1", ".", "1", "\r", "\n", "U", "S", "E", "R", "-", "A", "G", "E", "N", "T", ":", " ", "a", ":", " ", "b", "\r", "\n", "\r", "\n">>,
       <<"G", "E", "T", " ", "/", "u", "s", "e", "r", "-", "a", "g", "e", "n", "t", " ", "H", "T", "T", "P", "/", "1", ".", "1", "\r", "\n", "\r", "\n">>,
       <<"G", "E", "T", " ", "/", "e", "c", "h", "o", " ", "H", "T", "T", "P", "/", "1", ".", "1", "\r", "\n", "\r", "\n">>,
       <<"G", "E", "T", " ", "/", "f", "i", "l", "e", "s", " ", "H", "T", "T", "P", "/", "1", ".", "1", "\r", "\n", "\r", "\n">>,
       <<"P", "U", "T", " ", "/", " ", "H", "T", "T", "P", "/", "1", ".", "1", "\r", "\n", "\r", "\n">>,
       <<"P", "O", "S", "T", " ", "/", "e", "c", "h", "o", "/", "h", "i", " ", "H", "T", "T", "P", "/", "1", ".", "1", "\r", "\n", "\r", "\n">>,
       <<"G", "E", "T", " ", "/", "f", "i", "l", "e", "s", "/", " ", "H", "T", "T", "P", "/", "1", ".", "1", "\r", "\n", "\r", "\n">>,
       <<"P", "O", "S", "T", " ", "/", "f", "i", "l", "e", "s", "/", "d", "/", "x", " ", "H", "T", "T", "P", "/", "1", ".", "1", "\r", "\n", "C", "o", "n", "t", "e", "n", "t", "-", "L", "e", "n", "g", "t", "h", ":", " ", "1", "\r", "\n", "\r", "\n", "x">>,
       <<"G", "E", "T", " ", "/", " ", "H", "T", "T", "P", "/", "1", ".", "1", "\r", "\n", "C", "o", "n", "n", "e", "c", "t", "i", "o", "n", ":", " ", "k", "e", "e", "p", "-", "a", "l", "i", "v", "e", "\r", "\n", "c", "o", "n", "n", "e", "c", "t", "i", "o", "n", ":", " ", "c", "l", "o", "s", "e", "\r", "\n", "\r", "\n">>,
       <<"G", "E", "T", " ", "/", "u", "s", "e", "r", "-", "a", "g", "e", "n", "t", " ", "H", "T", "T", "P", "/", "1", ".", "1", "\r", "\n", "b", "o", "g", "u", "s", "\r", "\n", "U", "s", "e", "r", "-", "A", "g", "e", "n", "t", ":", "x", "\r", "\n", "\r", "\n">>,
       <<"G", "E", "T", " ", "/", " ", "H", "T", "T", "P", "/", "1", ".", "1", "\r", "\n", "C", "o", "n", "n", "e", "c", "t", "i", "o", "n", ":", " ", "c", "l", "o", "s", "e", "\r", "\n", "C", "O", "N", "N", "E", "C", "T", "I", "O", "N", ":", " ", "k", "e", "e", "p", "-", "a", "l", "i", "v", "e", "\r", "\n", "\r", "\n">>,
       <<"G", "E", "T", " ", "/", "f", "i", "l", "e", "s", "/", "b", " ", "H", "T", "T", "P", "/", "1", ".", "1", "\r", "\n", "\r", "\n">>,
       LongRequest,
       <<"G", "E", "T", VT>> \o <<"/", "e", "c", "h", "o", "/", "h", "i", " ", "H", "T", "T", "P", "/", "1", ".", "1", "\r", "\n", "\r", "\n">>,
       <<"P", "O", "S", "T", " ", "/", "f", "i", "l", "e", "s", "/", ".", "/", "a", " ", "H", "T", "T", "P", "/", "1", ".", "1", "\r", "\n", "C", "o", "n", "t", "e", "n", "t", "-", "L", "e", "n", "g", "t", "h", ":", " ">> \o <<VT>> \o <<"2", "\r", "\n", "\r", "\n", "x", "y">>,
       <<"G", "E", "T", " ", "/", "f", "i", "l", "e", "s", "/", ".", " ", "H", "T", "T", "P", "/", "1", ".", "1", "\r", "\n", "\r", "\n">>,
       <<"P", "O", "S", "T", " ", "/", "f", "i", "l", "e", "s", "/", ".", ".", " ", "H", "T", "T", "P", "/", "1", ".", "1", "\r", "\n", "C", "o", "n", "n", "e", "c", "t", "i", "o", "n", ":", " ", "c", "l", "o", "s", "e", "\r", "\n", "\r", "\n">>,
       <<"P", "O", "S", "T", " ", "/", "f", "i", "l", "e", "s", "/", ".", ".", "/", "x", " ", "H", "T", "T", "P", "/", "1", ".", "1", "\r", "\n", "C", "o", "n", "t", "e", "n", "t", "-", "L", "e", "n", "g", "t", "h", ":", " ", "1", "\r", "\n", "\r", "\n", "x">>,
       <<"P", "O", "S", "T", " ", "/", "f", "i", "l", "e", "s", "/", "a", " ", "H", "T", "T", "P", "/", "1", ".", "1", "\r", "\n", "C", "o", "n", "t", "e", "n", "t", "-", "L", "e", "n", "g", "t", "h", ":", " ", "-", "0", "2", "1", "4", "7", "4", "8", "3", "6", "4", "8", "\r", "\n", "\r", "\n">>,
       <<"G", "E", "T", " ", "/", "f", "i", "l", "e", "s", "/", "/", "a", " ", "H", "T", "T", "P", "/", "1", ".", "1", "\r", "\n", "\r", "\n">>,
       <<"G", "E", "T", " ", "/", "f", "i", "l", "e", "s", "/", ".", ".", "/", "d", "a", "t", "a", "/", "b", " ", "H", "T", "T", "P", "/", "1", ".", "1", "\r", "\n", "\r", "\n">>,
       <<"G", "E", "T", " ", "/", "\n", "\n", "C", "o", "n", "t", "e", "n", "t", "-", "L", "e", "n", "g", "t", "h", ":", " ", "z", "\r", "\n", "\r", "\n">>,
       <<"P", "O", "S", "T", " ", "/", "f", "i", "l", "e", "s", "/", "a", " ", "H", "T", "T", "P", "/", "1", ".", "1", "\r", "\n", "C", "o", "n", "t", "e", "n", "t", "-", "L", "e", "n", "g", "t", "h", ":", " ", "2", "\r", "\n", "\r", "\n", "x", "y", "z">>,
       <<"G", "E", "T", " ", "/", " ", "H", "T", "T", "P", "/", "1", ".", "1", "\r", "\n", "\r", "\n", "G", "E", "T", " ", "/", "e", "c", "h", "o", "/", "x", " ", "H", "T", "T", "P", "/", "1", ".", "1", "\r", "\n", "\r", "\n">> >>

\* In the scenario "single" the one client sends one request, any of the menu.
\* The requests it chooses from in the scenario "sequential": those that leave
\* the process running (the others end a run whenever they are sent).
SequentialMenu == {1, 2, 3, 4, 5, 7, 8, 10}

\* The requests the client of connection 1 sends, one after the other, in the
\* scenario "sequential": it is the only client and chooses from SequentialMenu.
MaxReqs == 2

\* In the scenario "preloaded" base_dir holds files when the server starts and
\* the one client sends one of these requests.
PreloadedMenu == {1, 2, 3, 4, 5, 7, 8, 21, 22, 26, 29, 30, 31, 32, 34, 35}

\* In the scenario "concurrent" both clients connect and each sends one of
\* these requests: the two uploads, the download, the request parse throws on.
ConcurrentMenu == {3, 4, 5, 6}

\* A first read may end after this many bytes, inside the header block.
HdrCut == 4

Min(a, b) == IF a < b THEN a ELSE b

\* The length of the header block of the bytes q, separator included (0 when
\* q holds no separator).
HeaderLen(q) == IF Find(q, CRLFCRLF) = 0 THEN 0 ELSE Find(q, CRLFCRLF) + 3

\* A variant of FirstReadSizes for recv(client_fd, buffer, sizeof(buffer), 0):
\* a read may fill the whole array.
FirstReadSizesFull(q, whole) ==
    LET most == Min(Len(q), BufSize)
        hl   == HeaderLen(q)
    IN  {n \in 1..most :
            \/ n = most
            \/ whole /\ n = HdrCut
            \/ hl # 0 /\ n >= hl}

\* The byte counts recv(client_fd, buffer, sizeof(buffer) - 1, 0) may return
\* when q is in flight: everything, any count that covers the header block,
\* or HdrCut when q is a whole request (no read has taken bytes of it).
FirstReadSizes(q, whole) ==
    LET most == Min(Len(q), BufSize - 1)
        hl   == HeaderLen(q)
    IN  {n \in 1..most :
            \/ n = most
            \/ whole /\ n = HdrCut
            \/ hl # 0 /\ n >= hl}

\* The byte counts recv(client_fd, more, sizeof(more), 0) may return.
MoreReadSizes(q) == 1..Min(Len(q), BufSize)

\* ------------------------------------------------------------------ state

VARIABLES
    scenario,       \* "single", "sequential" or "concurrent": what the clients do (never changes)
    alive,          \* the server process runs
    conn,           \* conn[c]: "none", "pending" (in the backlog), "accepted"
    accepted_fd,    \* client_fd of acceptConnections: what the last accept returned
    peer,           \* peer[c]: "open", "fin" (the client closed), "rst" (it reset)
    sockerr,        \* sockerr[c]: the socket holds a pending ECONNRESET
    inbox,          \* inbox[c]: bytes the client sent that no recv returned yet
    wire,           \* wire[c]: the responses send() put on connection c
    pc,             \* pc[s]: where thread s is
    client_fd,      \* client_fd[s]: handleClient's argument
    buffer,         \* buffer[s]: the bytes of buffer up to bytes_read
    request,        \* request[s]: parse's request
    content_length, \* content_length[s] of parse
    already_read,   \* already_read[s] of parse
    response,       \* response[s]: the bytes handle has made and send has not yet
                    \* been called with (none: NoResponse), and posted when handle read
    files,          \* files[key]: the bytes of the regular file with that key
    closes,         \* closes[s]: the close(client_fd) calls of thread s
    sent,           \* sent[c]: <<menu index, Len(wire[c]) when sent>> per request sent
    cycles,         \* cycles[s]: per cycle, the menu index whose header block the first
                    \* read held in full, or 0
    readfd,         \* readfd[s]: the socket the first read of this cycle read from
    eof,            \* eof[s]: a read of parse's loop returned <= 0 in this cycle
    more_reads,     \* more_reads[s]: the reads of parse's loop in this cycle
    posted,         \* posted[key]: the menu index of the request whose body was last written
    acc             \* the accesses so far: <<location, session, "r" or "w">>

\* The files of base_dir when the server starts: none, or in the scenario
\* "preloaded" a file a longer than any body uploaded and a file b.
InitialFiles(sc) ==
    IF sc = "preloaded" THEN (<<"a">> :> <<"o", "l", "d", "s">>) @@ (<<"b">> :> <<"k">>) ELSE <<>>

\* No response waits for its send.
NoResponse == [bytes |-> <<>>, saw |-> <<>>]

vars == <<scenario, alive, conn, accepted_fd, peer, sockerr, inbox, wire, pc, client_fd, response, buffer,
          request, content_length, already_read, files, closes, sent, cycles,
          readfd, eof, more_reads, posted, acc>>

net == <<conn, accepted_fd, peer, sockerr, inbox, wire>>
thread == <<pc, client_fd, response, buffer, request, content_length, already_read, closes>>
ghost == <<sent, cycles, readfd, eof, more_reads, posted, acc>>

Init ==
    /\ scenario \in {"single", "sequential", "concurrent", "preloaded"}
    /\ alive = TRUE
    /\ conn = [c \in Conn |-> "none"]
    /\ accepted_fd = 0
    /\ peer = [c \in Conn |-> "open"]
    /\ sockerr = [c \in Conn |-> FALSE]
    /\ inbox = [c \in Conn |-> <<>>]
    /\ wire = [c \in Conn |-> <<>>]
    /\ pc = [s \in Conn |-> "idle"]
    /\ client_fd = [s \in Conn |-> 0]
    /\ buffer = [s \in Conn |-> <<>>]
    /\ request = [s \in Conn |-> EmptyRequest]
    /\ content_length = [s \in Conn |-> 0]
    /\ already_read = [s \in Conn |-> 0]
    /\ response = [s \in Conn |-> NoResponse]
    /\ files = InitialFiles(scenario)
    /\ closes = [s \in Conn |-> 0]
    /\ sent = [c \in Conn |-> <<>>]
    /\ cycles = [s \in Conn |-> <<>>]
    /\ readfd = [s \in Conn |-> 0]
    /\ eof = [s \in Conn |-> FALSE]
    /\ more_reads = [s \in Conn |-> 0]
    /\ posted = <<>>
    /\ acc = {}

\* ----------------------------------------------------------- the clients

\* Whether the client of connection c may send request r of the menu now.
MaySend(c, r) ==
    CASE scenario = "single" -> c = 1 /\ sent[c] = <<>>
      [] scenario = "sequential" -> c = 1 /\ Len(sent[c]) < MaxReqs /\ r \in SequentialMenu
      [] scenario = "preloaded" -> c = 1 /\ sent[c] = <<>> /\ r \in PreloadedMenu
      [] OTHER -> sent[c] = <<>> /\ r \in ConcurrentMenu

\* connect(): the connection enters the listen backlog.
ClientConnect(c) ==
    /\ alive /\ conn[c] = "none"
    /\ scenario # "concurrent" => c = 1
    /\ \A d \in Conn : d < c => conn[d] # "none"
    /\ conn' = [conn EXCEPT ![c] = "pending"]
    /\ UNCHANGED <<scenario, alive, accepted_fd, peer, sockerr, inbox, wire, files, thread, ghost>>

\* The client sends request r of the menu, once what it sent before has been
\* read and, for a second request, a response has come back.
ClientSend(c, r) ==
    /\ alive /\ conn[c] = "accepted" /\ peer[c] = "open"
    /\ MaySend(c, r)
    /\ inbox[c] = <<>>
    /\ sent[c] # <<>> => Len(wire[c]) > sent[c][Len(sent[c])][2]
    /\ inbox' = [inbox EXCEPT ![c] = Menu[r]]
    /\ sent' = [sent EXCEPT ![c] = Append(@, <<r, Len(wire[c])>>)]
    /\ UNCHANGED <<scenario, alive, conn, accepted_fd, peer, sockerr, wire, files, thread,
                   cycles, readfd, eof, more_reads, posted, acc>>

\* The client closes its end while the server waits in recv for bytes of
\* it: that recv returns 0.
ClientClose(c) ==
    /\ alive /\ conn[c] = "accepted" /\ peer[c] = "open"
    /\ inbox[c] = <<>>
    /\ pc[c] \in {"recv", "body"}
    /\ peer' = [peer EXCEPT ![c] = "fin"]
    /\ UNCHANGED <<scenario, alive, conn, accepted_fd, sockerr, inbox, wire, files, thread, ghost>>

\* The client resets the connection while the server works on its request:
\* the socket holds ECONNRESET.
ClientReset(c) ==
    /\ alive /\ conn[c] = "accepted" /\ peer[c] = "open"
    /\ inbox[c] = <<>>
    /\ pc[c] \in {"body", "dispatch", "post_write", "send"}
    /\ peer' = [peer EXCEPT ![c] = "rst"]
    /\ sockerr' = [sockerr EXCEPT ![c] = TRUE]
    /\ UNCHANGED <<scenario, alive, conn, accepted_fd, inbox, wire, files, thread, ghost>>

\* ------------------------------------------- HttpServer::acceptConnections

\* A variant of Accept: the loop serves a connection itself before it accepts
\* the next (no thread), so it accepts only when no session is running.
AcceptWaitsForSessions(c) ==
    /\ alive /\ conn[c] = "pending"
    /\ \A s \in Conn : pc[s] \in {"idle", "done"}
    /\ conn' = [conn EXCEPT ![c] = "accepted"]
    /\ accepted_fd' = c
    /\ client_fd' = [client_fd EXCEPT ![c] = c]
    /\ pc' = [pc EXCEPT ![c] = "recv"]
    /\ UNCHANGED <<scenario, alive, peer, sockerr, inbox, wire, files, buffer, response, request,
                   content_length, already_read, closes, ghost>>

\* accept() returns the socket of connection c; the loop starts a detached
\* thread running handleClient(client_fd, base_dir) and accepts again.
Accept(c) ==
    /\ alive /\ conn[c] = "pending"
    /\ conn' = [conn EXCEPT ![c] = "accepted"]
    /\ accepted_fd' = c
    /\ client_fd' = [client_fd EXCEPT ![c] = c]
    /\ pc' = [pc EXCEPT ![c] = "recv"]
    /\ UNCHANGED <<scenario, alive, peer, sockerr, inbox, wire, files, buffer, response, request,
                   content_length, already_read, closes, ghost>>

\* accept() returns -1 while connection c waits in the backlog (the process
\* is out of descriptors, EMFILE): "Failed to accept connection.", continue.
\* The connection stays in the backlog for the next accept.
AcceptFail(c) ==
    /\ alive /\ conn[c] = "pending"
    /\ accepted_fd' = 0 - 1
    /\ UNCHANGED <<scenario, alive, conn, peer, sockerr, inbox, wire, files, thread, ghost>>

\* ------------------------------------------------------------ handleClient

\* A variant of FdOf: the thread uses the accept loop's client_fd itself (as if
\* the thread took it by reference).
FdOfShared(s) == IF accepted_fd \in Conn THEN accepted_fd ELSE client_fd[s]

\* The socket thread s reads from, writes to and closes: its own copy of the
\* client_fd it was started with.
FdOf(s) == client_fd[s]

\* A variant of LocBuffer: one buffer of static storage for all threads.
LocBufferStatic(s) == <<"buffer", 0>>

\* The locations a step of thread s touches: buffer and request are locals of
\* handleClient and parse, one per thread.
LocBuffer(s) == <<"buffer", s>>
LocRequest(s) == <<"request", s>>
LocSocket(fd) == <<"socket", fd>>
LocFile(name) == <<"file", name>>

Touch(s, reads, writes) ==
    acc' = acc \cup {<<l, s, "r">> : l \in reads} \cup {<<l, s, "w">> : l \in writes}

\* What send(client_fd, ...) does when the peer has reset: ECONNRESET while the
\* socket still holds that error, else EPIPE with SIGPIPE, which ends the process.
SendOutcome(fd) ==
    IF peer[fd] # "rst" THEN "ok" ELSE IF sockerr[fd] THEN "error" ELSE "sigpipe"

\* The menu index whose header block a first read of n bytes from q holds in
\* full, or 0: q is a request of the menu as sent and n covers its header block.
Aligned(c, q, n) ==
    IF sent[c] # <<>> /\ q = Menu[sent[c][Len(sent[c])][1]] /\ n >= HeaderLen(q)
    THEN sent[c][Len(sent[c])][1] ELSE 0

\* A variant of RecvData in which the request object outlives the cycle: the
\* headers of the earlier requests stay in its map unless set again.
RecvDataKeepsHeaders(s) ==
    LET fd == FdOf(s) IN
    /\ alive /\ pc[s] = "recv" /\ inbox[fd] # <<>>
    /\ \E n \in FirstReadSizes(inbox[fd], Aligned(fd, inbox[fd], Len(inbox[fd])) # 0) :
         LET bytes == SubSeq(inbox[fd], 1, n)
             array == Overlay(buffer[s], bytes)
             ph    == ParseHead(Terminated(array, n))
         IN  /\ inbox' = [inbox EXCEPT ![fd] = SubstrFrom(@, n + 1)]
             /\ buffer' = [buffer EXCEPT ![s] = array]
             /\ cycles' = [cycles EXCEPT ![s] = Append(@, Aligned(fd, inbox[fd], n))]
             /\ readfd' = [readfd EXCEPT ![s] = fd]
             /\ eof' = [eof EXCEPT ![s] = FALSE]
             /\ more_reads' = [more_reads EXCEPT ![s] = 0]
             /\ Touch(s, {}, {LocSocket(fd), LocBuffer(s), LocRequest(s)})
             /\ \/ /\ ph.status = "throw"    \* std::stoi throws: std::terminate
                   /\ alive' = FALSE
                   /\ pc' = [pc EXCEPT ![s] = "threw"]
                   /\ UNCHANGED <<request, content_length, already_read>>
                \/ /\ ph.ub   \* line.back() of an empty line aborts
                   /\ alive' = FALSE
                   /\ pc' = [pc EXCEPT ![s] = "aborted"]
                   /\ UNCHANGED <<request, content_length, already_read>>
                \/ /\ ph.status # "throw"
                   /\ request' = [request EXCEPT ![s] =
                                  [ph.request EXCEPT !.headers = @ @@ request[s].headers]]
                   /\ content_length' = [content_length EXCEPT ![s] = ph.content_length]
                   /\ already_read' = [already_read EXCEPT ![s] = ph.already_read]
                   /\ pc' = [pc EXCEPT ![s] =
                               IF ph.status = "ok" /\ NeedMore(ph.already_read, ph.content_length)
                               THEN "body" ELSE "dispatch"]
                   /\ UNCHANGED alive
    /\ UNCHANGED <<scenario, conn, accepted_fd, peer, sockerr, wire, files, client_fd, response, closes,
                   sent, posted>>

\* recv(client_fd, buffer, sizeof(buffer) - 1, 0) returns n > 0 bytes and
\* HttpRequest::parse runs up to its read loop.
RecvData(s) ==
    LET fd == FdOf(s) IN
    /\ alive /\ pc[s] = "recv" /\ inbox[fd] # <<>>
    /\ \E n \in FirstReadSizes(inbox[fd], Aligned(fd, inbox[fd], Len(inbox[fd])) # 0) :
         LET bytes == SubSeq(inbox[fd], 1, n)
             array == Overlay(buffer[s], bytes)
             ph    == ParseHead(Terminated(array, n))
         IN  /\ inbox' = [inbox EXCEPT ![fd] = SubstrFrom(@, n + 1)]
             /\ buffer' = [buffer EXCEPT ![s] = array]
             /\ cycles' = [cycles EXCEPT ![s] = Append(@, Aligned(fd, inbox[fd], n))]
             /\ readfd' = [readfd EXCEPT ![s] = fd]
             /\ eof' = [eof EXCEPT ![s] = FALSE]
             /\ more_reads' = [more_reads EXCEPT ![s] = 0]
             /\ Touch(s, {}, {LocSocket(fd), LocBuffer(s), LocRequest(s)})
             /\ \/ /\ ph.status = "throw"    \* std::stoi throws: std::terminate
                   /\ alive' = FALSE
                   /\ pc' = [pc EXCEPT ![s] = "threw"]
                   /\ UNCHANGED <<request, content_length, already_read>>
                \/ /\ ph.ub   \* line.back() of an empty line aborts
                   /\ alive' = FALSE
                   /\ pc' = [pc EXCEPT ![s] = "aborted"]
                   /\ UNCHANGED <<request, content_length, already_read>>
                \/ /\ ph.status # "throw"
                   /\ request' = [request EXCEPT ![s] = ph.request]
                   /\ content_length' = [content_length EXCEPT ![s] = ph.content_length]
                   /\ already_read' = [already_read EXCEPT ![s] = ph.already_read]
                   /\ pc' = [pc EXCEPT ![s] =
                               IF ph.status = "ok" /\ NeedMore(ph.already_read, ph.content_length)
                               THEN "body" ELSE "dispatch"]
                   /\ UNCHANGED alive
    /\ UNCHANGED <<scenario, conn, accepted_fd, peer, sockerr, wire, files, client_fd, response, closes,
                   sent, posted>>

\* A variant of RecvEnd without the test of bytes_read: the loop body runs on.
RecvEndParses(s) ==
    LET fd == FdOf(s) IN
    /\ alive /\ pc[s] = "recv" /\ inbox[fd] = <<>> /\ peer[fd] # "open"
    /\ sockerr' = [sockerr EXCEPT ![fd] = FALSE]
    /\ pc' = [pc EXCEPT ![s] = "dispatch"]
    /\ Touch(s, {}, {LocSocket(fd)})
    /\ UNCHANGED <<scenario, alive, conn, accepted_fd, peer, inbox, wire, files, client_fd, response, buffer,
                   request, content_length, already_read, closes, sent, cycles, readfd,
                   eof, more_reads, posted>>

\* recv returns 0 (the client closed) or -1 (it reset): break.
RecvEnd(s) ==
    LET fd == FdOf(s) IN
    /\ alive /\ pc[s] = "recv" /\ inbox[fd] = <<>> /\ peer[fd] # "open"
    /\ sockerr' = [sockerr EXCEPT ![fd] = FALSE]
    /\ pc' = [pc EXCEPT ![s] = "closing"]
    /\ Touch(s, {}, {LocSocket(fd)})
    /\ UNCHANGED <<scenario, alive, conn, accepted_fd, peer, inbox, wire, files, client_fd, response, buffer,
                   request, content_length, already_read, closes, sent, cycles, readfd,
                   eof, more_reads, posted>>

\* parse's loop: recv(client_fd, more, sizeof(more), 0) returns n > 0 bytes.
MoreData(s) ==
    LET fd == FdOf(s) IN
    /\ alive /\ pc[s] = "body" /\ inbox[fd] # <<>>
    /\ \E n \in MoreReadSizes(inbox[fd]) :
         /\ inbox' = [inbox EXCEPT ![fd] = SubstrFrom(@, n + 1)]
         /\ request' = [request EXCEPT ![s].body = @ \o SubSeq(inbox[fd], 1, n)]
         /\ already_read' = [already_read EXCEPT ![s] = @ + n]
         /\ pc' = [pc EXCEPT ![s] =
                     IF NeedMore(already_read[s] + n, content_length[s])
                     THEN "body" ELSE "dispatch"]
    /\ more_reads' = [more_reads EXCEPT ![s] = 1]
    /\ Touch(s, {}, {LocSocket(fd), LocRequest(s)})
    /\ UNCHANGED <<scenario, alive, conn, accepted_fd, peer, sockerr, wire, files, client_fd, response, buffer,
                   content_length, closes, sent, cycles, readfd, eof, posted>>

\* A variant of MoreEnd with a receive timeout on the socket: recv returns -1
\* although the client has neither sent nor closed.
MoreEndTimeout(s) ==
    LET fd == FdOf(s) IN
    /\ alive /\ pc[s] = "body" /\ inbox[fd] = <<>>
    /\ sockerr' = [sockerr EXCEPT ![fd] = FALSE]
    /\ eof' = [eof EXCEPT ![s] = TRUE]
    /\ more_reads' = [more_reads EXCEPT ![s] = 1]
    /\ pc' = [pc EXCEPT ![s] = "dispatch"]
    /\ Touch(s, {}, {LocSocket(fd)})
    /\ UNCHANGED <<scenario, alive, conn, accepted_fd, peer, inbox, wire, files, client_fd, response, buffer,
                   request, content_length, already_read, closes, sent, cycles, readfd,
                   posted>>

\* A variant of MoreEnd that treats the end of the stream inside the body as
\* the end of the session: the truncated request is not dispatched.
MoreEndDiscards(s) ==
    LET fd == FdOf(s) IN
    /\ alive /\ pc[s] = "body" /\ inbox[fd] = <<>> /\ peer[fd] # "open"
    /\ sockerr' = [sockerr EXCEPT ![fd] = FALSE]
    /\ eof' = [eof EXCEPT ![s] = TRUE]
    /\ more_reads' = [more_reads EXCEPT ![s] = 1]
    /\ pc' = [pc EXCEPT ![s] = "closing"]
    /\ Touch(s, {}, {LocSocket(fd)})
    /\ UNCHANGED <<scenario, alive, conn, accepted_fd, peer, inbox, wire, files, client_fd, response, buffer,
                   request, content_length, already_read, closes, sent, cycles, readfd,
                   posted>>

\* parse's loop: recv returns n <= 0: break, and parse returns what it has.
MoreEnd(s) ==
    LET fd == FdOf(s) IN
    /\ alive /\ pc[s] = "body" /\ inbox[fd] = <<>> /\ peer[fd] # "open"
    /\ sockerr' = [sockerr EXCEPT ![fd] = FALSE]
    /\ eof' = [eof EXCEPT ![s] = TRUE]
    /\ more_reads' = [more_reads EXCEPT ![s] = 1]
    /\ pc' = [pc EXCEPT ![s] = "dispatch"]
    /\ Touch(s, {}, {LocSocket(fd)})
    /\ UNCHANGED <<scenario, alive, conn, accepted_fd, peer, inbox, wire, files, client_fd, response, buffer,
                   request, content_length, already_read, closes, sent, cycles, readfd,
                   posted>>

\* A variant of SendAndLoop in which the response is sent twice.
SendAndLoopTwice(s, bytes, should_close) ==
    LET fd == FdOf(s)
        w  == [bytes |-> bytes, sess |-> s, rfd |-> readfd[s],
               cycle |-> Len(cycles[s]), saw |-> response[s].saw]
    IN
    \/ /\ SendOutcome(fd) = "sigpipe"
       /\ alive' = FALSE
       /\ pc' = [pc EXCEPT ![s] = "sigpipe"]
       /\ UNCHANGED <<wire, sockerr, buffer>>
    \/ /\ SendOutcome(fd) # "sigpipe"
       /\ wire' = IF SendOutcome(fd) = "ok"
                  THEN [wire EXCEPT ![fd] = Append(Append(@, w), w)]
                  ELSE wire
       /\ sockerr' = [sockerr EXCEPT ![fd] = FALSE]
       /\ pc' = [pc EXCEPT ![s] = IF should_close THEN "closing" ELSE "recv"]
       /\ buffer' = IF should_close THEN buffer ELSE [buffer EXCEPT ![s] = <<>>]
       /\ UNCHANGED alive

\* send() of a response and the end of the loop body: break when should_close,
\* else memset(buffer, 0, sizeof(buffer)) and the next recv.
SendAndLoop(s, bytes, should_close) ==
    LET fd == FdOf(s) IN
    \/ /\ SendOutcome(fd) = "sigpipe"
       /\ alive' = FALSE
       /\ pc' = [pc EXCEPT ![s] = "sigpipe"]
       /\ UNCHANGED <<wire, sockerr, buffer>>
    \/ /\ SendOutcome(fd) # "sigpipe"
       /\ wire' = IF SendOutcome(fd) = "ok"
                  THEN [wire EXCEPT ![fd] = Append(@, [bytes |-> bytes, sess |-> s,
                                                       rfd |-> readfd[s],
                                                       cycle |-> Len(cycles[s]),
                                                       saw |-> response[s].saw])]
                  ELSE wire
       /\ sockerr' = [sockerr EXCEPT ![fd] = FALSE]
       /\ pc' = [pc EXCEPT ![s] = IF should_close THEN "closing" ELSE "recv"]
       /\ buffer' = IF should_close THEN buffer ELSE [buffer EXCEPT ![s] = <<>>]
       /\ UNCHANGED alive

\* handle has made the bytes of its response and is about to call send.
ToSend(s, bytes) ==
    /\ response' = [response EXCEPT ![s] = [bytes |-> bytes, saw |-> posted]]
    /\ pc' = [pc EXCEPT ![s] = "send"]
    /\ UNCHANGED <<alive, wire, sockerr, buffer>>

\* should_close and handler.handle(request, response) for a request that does
\* not take the POST branch, up to the call of send: the branch is chosen,
\* the file opened and read, the bytes of the response made.
Dispatch(s) ==
    /\ alive /\ pc[s] = "dispatch" /\ Route(request[s]) # "post-file"
    /\ ToSend(s, Respond(request[s], ShouldClose(request[s]), files))
    /\ Touch(s, {LocRequest(s)}
                  \cup (IF Route(request[s]) = "get-file"
                        THEN {LocFile(FileKey(FileName(request[s].path)))} ELSE {}),
                {})
    /\ UNCHANGED <<scenario, conn, accepted_fd, peer, inbox, files, client_fd, request,
                   content_length, already_read, closes, sent, cycles, readfd, eof,
                   more_reads, posted>>

\* The POST branch, std::ofstream out_file(full_path, std::ios::binary):
\* not open, the response is 500; open, the file is created or truncated.
PostOpen(s) ==
    LET name == FileName(request[s].path) IN
    /\ alive /\ pc[s] = "dispatch" /\ Route(request[s]) = "post-file"
    /\ \/ /\ ~CanOpenWrite(files, name)
          /\ UNCHANGED <<files, posted>>
          /\ ToSend(s, sendRaw(Status500))
          /\ Touch(s, {LocRequest(s)}, {})
       \/ /\ CanOpenWrite(files, name)
          /\ files' = Truncate(files, name)
          /\ posted' = MapPut(posted, FileKey(name), 0)
          /\ pc' = [pc EXCEPT ![s] = "post_write"]
          /\ Touch(s, {LocRequest(s)}, {LocFile(FileKey(name))})
          /\ UNCHANGED <<alive, wire, sockerr, buffer, response>>
    /\ UNCHANGED <<scenario, conn, accepted_fd, peer, inbox, client_fd, request,
                   content_length, already_read, closes, sent, cycles, readfd, eof,
                   more_reads>>

\* The POST branch, out_file.write and out_file.close(): the body is in the
\* file, the response is 201.
PostWrite(s) ==
    LET name == FileName(request[s].path) IN
    /\ alive /\ pc[s] = "post_write"
    /\ files' = WriteAll(files, name, request[s].body)
    /\ posted' = MapPut(posted, FileKey(name), cycles[s][Len(cycles[s])])
    /\ ToSend(s, sendRaw(Status201))
    /\ Touch(s, {LocRequest(s)}, {LocFile(FileKey(name))})
    /\ UNCHANGED <<scenario, conn, accepted_fd, peer, inbox, client_fd, request,
                   content_length, already_read, closes, sent, cycles, readfd, eof,
                   more_reads>>

\* send(client_fd, ...) of the response handle made, and the end of the loop
\* body.
Send(s) ==
    /\ alive /\ pc[s] = "send"
    /\ SendAndLoop(s, response[s].bytes, ShouldClose(request[s]))
    /\ response' = [response EXCEPT ![s] = NoResponse]
    /\ Touch(s, {LocRequest(s)}, {LocSocket(FdOf(s)), LocBuffer(s)})
    /\ UNCHANGED <<scenario, conn, accepted_fd, peer, inbox, files, client_fd, request,
                   content_length, already_read, closes, sent, cycles, readfd, eof,
                   more_reads, posted>>

\* close(client_fd) after the loop.
Close(s) ==
    /\ alive /\ pc[s] = "closing"
    /\ closes' = [closes EXCEPT ![s] = @ + 1]
    /\ pc' = [pc EXCEPT ![s] = "done"]
    /\ Touch(s, {}, {LocSocket(FdOf(s))})
    /\ UNCHANGED <<scenario, alive, conn, accepted_fd, peer, sockerr, inbox, wire, files, client_fd, response,
                   buffer, request, content_length, already_read, sent, cycles, readfd,
                   eof, more_reads, posted>>

Next ==
    \/ \E c \in Conn : ClientConnect(c)
    \/ \E c \in Conn : \E r \in 1..Len(Menu) : ClientSend(c, r)
    \/ \E c \in Conn : ClientClose(c)
    \/ \E c \in Conn : ClientReset(c)
    \/ \E c \in Conn : Accept(c)
    \/ \E c \in Conn : AcceptFail(c)
    \/ \E s \in Conn : RecvData(s)
    \/ \E s \in Conn : RecvEnd(s)
    \/ \E s \in Conn : MoreData(s)
    \/ \E s \in Conn : MoreEnd(s)
    \/ \E s \in Conn : Dispatch(s)
    \/ \E s \in Conn : PostOpen(s)
    \/ \E s \in Conn : PostWrite(s)
    \/ \E s \in Conn : Send(s)
    \/ \E s \in Conn : Close(s)

Spec == Init /\ [][Next]_vars

\* The specification in which every thread that can take a step eventually
\* takes one: each session and the accept loop run on threads of their own,
\* scheduled by the kernel.  Nothing is assumed of the clients.  One client
\* is enough for the claims checked under it.
FairInit == Init /\ scenario \in {"single", "preloaded"}

\* recv has bytes to return to the first read of a cycle of session s.
RecvReady(s) == alive /\ pc[s] = "recv" /\ inbox[FdOf(s)] # <<>>

\* The steps of the thread of session s other than RecvData(s).
SessionStep(s) ==
    \/ RecvEnd(s) \/ MoreData(s) \/ MoreEnd(s)
    \/ Dispatch(s) \/ PostOpen(s) \/ PostWrite(s) \/ Send(s) \/ Close(s)

AcceptStep == \E c \in Conn : Accept(c) \/ AcceptFail(c)

\* Weak fairness of RecvData(s), written out: RecvData(s) is enabled exactly
\* when RecvReady(s), and its steps are the steps that start a cycle.
FairRecv(s) == []<>(~RecvReady(s)) \/ []<><<cycles'[s] # cycles[s]>>_vars

FairSpec ==
    /\ FairInit /\ [][Next]_vars
    /\ \A s \in Conn : WF_vars(SessionStep(s)) /\ FairRecv(s)
    /\ WF_vars(AcceptStep)

\* ================================================================ claims

Last(q) == q[Len(q)]

\* The body the client sent with request r of the menu.
ClientBody(r) == SubstrFrom(Menu[r], HeaderLen(Menu[r]) + 1)

\* The well-formed requests of the menu without "Connection: close".
KeepAliveMenu == {1, 3, 4, 5}

\* The uploads of the menu whose Content-Length is the length of their body.
UploadMenu == {3, 5}

\* Header connection present with value close.
CarriesClose(req) ==
    \E k \in DOMAIN req.headers : k = <<"c", "o", "n", "n", "e", "c", "t", "i", "o", "n">> /\ req.headers[k] = <<"c", "l", "o", "s", "e">>

\* The client of connection c has sent only keep-alive requests, has neither
\* closed nor reset, and the process runs.
KeepAliveClient(c) ==
    /\ alive /\ peer[c] = "open" /\ sent[c] # <<>>
    /\ \A k \in 1..Len(sent[c]) : sent[c][k][1] \in KeepAliveMenu

\* Every cycle of session s began with a read that held the whole header
\* block of the request the client had just sent.
WholeHeaders(s) == \A k \in 1..Len(cycles[s]) : cycles[s][k] # 0

\* Session c has nothing left to do for what the client sent.
AtRest(c) == pc[c] = "recv" /\ inbox[c] = <<>>

\* The responses on connection c are one per request, in request order.
OnePerRequest(c) ==
    /\ Len(wire[c]) <= Len(sent[c])
    /\ AtRest(c) => Len(wire[c]) = Len(sent[c])
    /\ \A k \in 1..Len(wire[c]) :
         /\ wire[c][k].cycle = k
         /\ cycles[c][k] = sent[c][k][1]
         /\ sent[c][k][1] = 1 => wire[c][k].bytes = Status200
         /\ sent[c][k][1] \in {3, 5} => wire[c][k].bytes = Status201
    /\ wire[c] # <<>> => pc[c] \notin {"closing", "done"}

\* C1 as stated: when a client sends keep-alive requests one after the other,
\* each after the response to the one before, the session writes one response
\* per request, in request order, and the connection stays open.
C1_KeepAlive_AsStated ==
    \A c \in Conn : KeepAliveClient(c) => OnePerRequest(c)

\* C1 as amended: the same, when the read that starts each cycle holds the
\* whole header block of the request (a read that ends inside the header block
\* is answered 404 by itself and the rest of the request is parsed as another).
C1_KeepAlive ==
    \A c \in Conn : KeepAliveClient(c) /\ WholeHeaders(c) => OnePerRequest(c)

\* Two keep-alive requests were sent and answered on connection 1, and the
\* session waits for a third.
C1_Witness ==
    /\ KeepAliveClient(1) /\ WholeHeaders(1) /\ AtRest(1)
    /\ Len(sent[1]) = 2 /\ Len(wire[1]) = 2

\* The step of session s in which handle calls send with its response.
SendStep(s) == pc[s] = "send" /\ pc'[s] # "send"

\* C2: in a cycle whose request carries "connection: close" the session sends
\* the response and goes on to close(client_fd) without another recv; in any
\* other cycle it goes back to recv.
C2_CloseOnRequest ==
    [][\A s \in Conn :
         /\ SendStep(s) =>
               IF CarriesClose(request[s])
               THEN /\ pc'[s] = "closing"
                    /\ peer[s] # "rst" => Len(wire'[s]) = Len(wire[s]) + 1
               ELSE pc'[s] = "recv"
         /\ pc[s] = "closing" => pc'[s] \in {"closing", "done"}
         /\ pc[s] = "done" => pc'[s] = "done"]_vars

\* C3: handle is invoked for a request whose header block came with the
\* first read only once the body holds the Content-Length bytes the client sent,
\* and the body starts with exactly those bytes.
C3_BodyBeforeRouting ==
    \A s \in Conn :
        pc[s] = "dispatch" /\ cycles[s] # <<>> /\ Last(cycles[s]) \in UploadMenu =>
            LET B == ClientBody(Last(cycles[s]))
            IN  /\ Len(request[s].body) >= Len(B)
                /\ SubSeq(request[s].body, 1, Len(B)) = B

\* The value of the Content-Length header of request[s], -1 when it has none.
DeclaredLength(s) ==
    LET k == <<"c", "o", "n", "t", "e", "n", "t", "-", "l", "e", "n", "g", "t", "h">>
    IN  IF k \in DOMAIN request[s].headers THEN stoi(request[s].headers[k]).val ELSE 0 - 1

\* request[s] has a Content-Length header.
HasLength(s) == <<"c", "o", "n", "t", "e", "n", "t", "-", "l", "e", "n", "g", "t", "h">> \in DOMAIN request[s].headers

\* parse has returned in session s.
Parsed(s) == pc[s] \in {"dispatch", "post_write", "send"}

\* The cycle of session s began with the header block of a request of the menu
\* whose body, as the client sent it, has as many bytes as its Content-Length
\* header declares.
ExactlySent(s) ==
    /\ cycles[s] # <<>> /\ Last(cycles[s]) # 0
    /\ Len(ClientBody(Last(cycles[s]))) = DeclaredLength(s)

\* The bytes of the first read of the cycle of session s after the separator.
AfterSeparator(s) ==
    IF HeaderLen(buffer[s]) = 0 THEN 0 ELSE Len(buffer[s]) - HeaderLen(buffer[s])

\* C4 as stated: when parse has returned, the body is as long as the
\* Content-Length header says, and empty without that header.
C4_BodyLength_AsStated ==
    \A s \in Conn : Parsed(s) =>
        IF DeclaredLength(s) >= 0 THEN Len(request[s].body) = DeclaredLength(s)
        ELSE request[s].body = <<>>

\* The statement with the end of stream set apart and nothing else: when no
\* read of the loop returned <= 0 the body is as long as the header says.
\* Not so: a client that sends more than it declared has all of it in body.
C4_EqualUnlessEof ==
    \A s \in Conn : Parsed(s) /\ DeclaredLength(s) >= 0 /\ ~eof[s] =>
        Len(request[s].body) = DeclaredLength(s)

\* The clause of the statement for a request without the header: the body is
\* empty.  Not so: body is seeded with what follows the separator.
C4_EmptyWithoutHeader ==
    \A s \in Conn : Parsed(s) /\ ~HasLength(s) => request[s].body = <<>>

\* parse has returned in session s with a body of the length C4 as amended
\* allows.
BodyLengthAtReturn(s) ==
    Parsed(s) =>
        IF HasLength(s)
        THEN /\ eof[s] <=> Len(request[s].body) < DeclaredLength(s)
             /\ more_reads[s] = 0 => Len(request[s].body) <= AfterSeparator(s)
        ELSE /\ more_reads[s] = 0 /\ ~eof[s]
             /\ Len(request[s].body) <= AfterSeparator(s)

\* C4 as amended: when parse has returned for a request with a Content-Length
\* header of value N, the body is shorter than N exactly when a read of the
\* loop returned <= 0 and has at least N bytes otherwise; it has more than N
\* only by bytes of the read that brought it to N, since the loop reads only
\* while the body is shorter than N; without the header parse made no further
\* read and the body is no longer than what followed the separator in the
\* first read.
C4_BodyLength ==
    [][\A s \in Conn :
         /\ BodyLengthAtReturn(s)'
         /\ pc[s] = "body" /\ request'[s].body # request[s].body =>
               /\ Len(request[s].body) < DeclaredLength(s)
               /\ pc'[s] = "dispatch" <=> Len(request'[s].body) >= DeclaredLength(s)]_vars

\* parse returned a body completed by a further read.
C4_Witness ==
    /\ Parsed(1) /\ DeclaredLength(1) = 2 /\ more_reads[1] = 1 /\ ~eof[1]
    /\ ExactlySent(1) /\ Len(request[1].body) = 2

\* C5: a GET of /files/a answered after an upload of body B (Content-Length
\* |B|) wrote the file returns 200 with body B.
C5_FileRoundTrip ==
    \A c \in Conn : \A k \in 1..Len(wire[c]) :
        LET w  == wire[c][k]
            fa == <<"a">>
        IN  (/\ cycles[w.sess][w.cycle] = 4
             /\ fa \in DOMAIN w.saw
             /\ w.saw[fa] \in UploadMenu) =>
                w.bytes = sendResponse(<<"2", "0", "0", " ", "O", "K">>, <<"a", "p", "p", "l", "i", "c", "a", "t", "i", "o", "n", "/", "o", "c", "t", "e", "t", "-", "s", "t", "r", "e", "a", "m">>,
                                       ClientBody(w.saw[fa]), FALSE)

\* C6: a session whose loop has ended, however it ended, has closed
\* client_fd exactly once.
C6_HandleReleasedOnce ==
    \A s \in Conn :
        /\ closes[s] <= 1
        /\ pc[s] \in {"done", "threw", "aborted", "sigpipe"} => closes[s] = 1

\* C7: no error of a session ends the process.
C7_ErrorConfinement == alive

\* C8: when the send of a response fails, the session goes on to
\* close(client_fd) without another recv.
C8_WriteFailureFatal ==
    [][\A s \in Conn :
         SendStep(s) /\ SendOutcome(FdOf(s)) # "ok" => pc'[s] = "closing"]_vars

\* C9: every response on connection c was sent by the session of c, for a
\* request that session read from c.
C9_ResponseIsolation ==
    \A c \in Conn : \A k \in 1..Len(wire[c]) :
        /\ wire[c][k].sess = c
        /\ wire[c][k].rfd = c
        /\ client_fd[wire[c][k].sess] = c

\* Both sessions have answered a request.
C9_Witness == wire[1] # <<>> /\ wire[2] # <<>>

\* No location written by one session was read or written by another,
\* among the locations that satisfy Covered.
Unshared(Covered(_)) ==
    \A a \in acc : \A b \in acc :
        Covered(a[1]) /\ a[1] = b[1] /\ a[3] = "w" => a[2] = b[2]

AnyLocation(l) == TRUE
InProcess(l) == l[1] # "file"

\* C10 as stated: no state written by one session is read or written by
\* another.
C10_NoSharedState_AsStated == Unshared(AnyLocation)

\* C10 as amended: no state of the process (buffer, request, socket) written
\* by one session is read or written by another; the files of base_dir are
\* written and read by every session.
C10_NoSharedState == Unshared(InProcess)

\* Both sessions filled their buffers, one wrote a file and the other read it.
C10_Witness ==
    /\ \A s \in Conn : <<LocBuffer(s), s, "w">> \in acc
    /\ \E s \in Conn : \E t \in Conn :
         s # t /\ <<LocFile(<<"a">>), s, "w">> \in acc /\ <<LocFile(<<"a">>), t, "r">> \in acc

\* ------------------------------------------------------ responses on the wire

\* Every response sent so far, on any connection.
AllWire == UNION {Range(wire[c]) : c \in Conn}

\* The request of the menu that response w answers: the one whose header block
\* began the cycle that sent w (0 when the cycle began with other bytes).
AnswerTo(w) == cycles[w.sess][w.cycle]

\* The lines of the head of a response, as a client reads them, and its body.
HeadLines(bytes) ==
    LET ls == GetLines(SubSeq(bytes, 1, HeaderLen(bytes) - 4))
    IN  [i \in 1..Len(ls) |-> StripCR(ls[i])]

BodyOf(bytes) == SubstrFrom(bytes, HeaderLen(bytes) + 1)

\* The values of the header lines "name: value" of a response, as a sequence.
HeaderValues(bytes, name) ==
    LET hs == Tail(HeadLines(bytes))
        F[i \in 0..Len(hs)] ==
            IF i = 0 THEN <<>>
            ELSE IF StartsWith(hs[i], name \o <<":", " ">>)
                 THEN Append(F[i - 1], SubstrFrom(hs[i], Len(name) + 3))
                 ELSE F[i - 1]
    IN  F[Len(hs)]

\* The requests of the menu with request line GET /echo/s HTTP/1.1.
EchoMenu == {2, 11, 12}

\* The string s of such a request, as the client wrote it.
EchoString(r) ==
    SubSeq(Menu[r], Len(<<"G", "E", "T", " ", "/", "e", "c", "h", "o", "/">>) + 1, Find(Menu[r], <<" ", "H", "T", "T", "P", "/", "1", ".", "1", "\r", "\n">>) - 1)

\* C11: the response to GET /echo/s, for s without CR and LF (empty, or with
\* a space in it, included), has status 200 OK, Content-Type text/plain,
\* Content-Length |s| and body s.
C11_Echo ==
    \A w \in AllWire :
        AnswerTo(w) \in EchoMenu =>
            LET s == EchoString(AnswerTo(w))
            IN  /\ HeadLines(w.bytes)[1] = <<"H", "T", "T", "P", "/", "1", ".", "1", " ", "2", "0", "0", " ", "O", "K">>
                /\ HeaderValues(w.bytes, <<"C", "o", "n", "t", "e", "n", "t", "-", "T", "y", "p", "e">>) = <<<<"t", "e", "x", "t", "/", "p", "l", "a", "i", "n">>>>
                /\ HeaderValues(w.bytes, <<"C", "o", "n", "t", "e", "n", "t", "-", "L", "e", "n", "g", "t", "h">>) = <<ToDecimal(Len(s))>>
                /\ BodyOf(w.bytes) = s

\* The requests GET /user-agent of the menu that carry the header value
\* "a: b" under the names User-Agent, user-agent and USER-AGENT, and the one
\* without the header.
UserAgentMenu == {13, 14, 15}
NoUserAgentMenu == {16}

\* C12: GET /user-agent returns 200 OK, text/plain with the header's value as
\* body whatever the case of the letters of the header name, the same bytes
\* for each spelling, and the body Unknown when the header is absent.
C12_UserAgentCaseInsensitive ==
    \A w \in AllWire :
        /\ AnswerTo(w) \in UserAgentMenu =>
             w.bytes = <<"H", "T", "T", "P", "/", "1", ".", "1", " ", "2", "0", "0", " ", "O", "K", "\r", "\n", "C", "o", "n", "t", "e", "n", "t", "-", "T", "y", "p", "e", ":", " ", "t", "e", "x", "t", "/", "p", "l", "a", "i", "n", "\r", "\n", "C", "o", "n", "t", "e", "n", "t", "-", "L", "e", "n", "g", "t", "h", ":", " ", "4", "\r", "\n", "C", "o", "n", "n", "e", "c", "t", "i", "o", "n", ":", " ", "k", "e", "e", "p", "-", "a", "l", "i", "v", "e", "\r", "\n", "\r", "\n", "a", ":", " ", "b">>
        /\ AnswerTo(w) \in NoUserAgentMenu =>
             w.bytes = <<"H", "T", "T", "P", "/", "1", ".", "1", " ", "2", "0", "0", " ", "O", "K", "\r", "\n", "C", "o", "n", "t", "e", "n", "t", "-", "T", "y", "p", "e", ":", " ", "t", "e", "x", "t", "/", "p", "l", "a", "i", "n", "\r", "\n", "C", "o", "n", "t", "e", "n", "t", "-", "L", "e", "n", "g", "t", "h", ":", " ", "7", "\r", "\n", "C", "o", "n", "n", "e", "c", "t", "i", "o", "n", ":", " ", "k", "e", "e", "p", "-", "a", "l", "i", "v", "e", "\r", "\n", "\r", "\n", "U", "n", "k", "n", "o", "w", "n">>

\* The three spellings were each answered (in three runs, one per request),
\* here the one in capitals.
C12_Witness ==
    \E w \in Range(wire[1]) : AnswerTo(w) = 15 /\ BodyOf(w.bytes) = <<"a", ":", " ", "b">>

\* The first read of the cycle of session s returned bytes without the
\* separator CRLF CRLF, and parse has returned.
NoSeparator(s) == pc[s] \in {"dispatch", "send"} /\ Find(buffer[s], CRLFCRLF) = 0

\* The step in which session s ends the cycle it is in.
EndsCycle(s) == pc[s] = "send" /\ pc'[s] # "send"

\* C13: when the first read of a cycle holds no CRLF CRLF, parse makes no
\* further read and returns the empty request, and the session hands
\* exactly HTTP/1.1 404 Not Found (status only) to send for that read; the
\* bytes reach the connection unless the client has reset it.
C13_FramingError ==
    [][\A s \in Conn :
         NoSeparator(s) =>
            /\ request[s] = EmptyRequest
            /\ more_reads[s] = 0 /\ ~eof[s]
            /\ EndsCycle(s) =>
                 IF SendOutcome(FdOf(s)) = "ok"
                 THEN /\ Len(wire'[s]) = Len(wire[s]) + 1
                      /\ wire'[s][Len(wire'[s])].bytes = <<"H", "T", "T", "P", "/", "1", ".", "1", " ", "4", "0", "4", " ", "N", "o", "t", " ", "F", "o", "u", "n", "d", "\r", "\n", "\r", "\n">>
                 ELSE wire' = wire]_vars

\* A first read that ended inside the header block was answered with 404.
C13_Witness ==
    \E w \in Range(wire[1]) :
        w.cycle = 1 /\ AnswerTo(w) = 0 /\ w.bytes = <<"H", "T", "T", "P", "/", "1", ".", "1", " ", "4", "0", "4", " ", "N", "o", "t", " ", "F", "o", "u", "n", "d", "\r", "\n", "\r", "\n">>

\* The reference decision list: (method, how the path is matched, pattern,
\* what is answered), first match wins, no match is the status-only 404.
RefRules ==
    << [method |-> <<"G", "E", "T">>,  exact |-> TRUE,  pat |-> <<"/">>,           act |-> "200"],
       [method |-> <<"G", "E", "T">>,  exact |-> FALSE, pat |-> <<"/", "e", "c", "h", "o", "/">>,      act |-> "tail"],
       [method |-> <<"G", "E", "T">>,  exact |-> TRUE,  pat |-> <<"/", "u", "s", "e", "r", "-", "a", "g", "e", "n", "t">>, act |-> "agent"],
       [method |-> <<"G", "E", "T">>,  exact |-> FALSE, pat |-> <<"/", "f", "i", "l", "e", "s", "/">>,     act |-> "file"],
       [method |-> <<"P", "O", "S", "T">>, exact |-> FALSE, pat |-> <<"/", "f", "i", "l", "e", "s", "/">>,     act |-> "store"] >>

RefMatches(rule, method, path) ==
    /\ method = rule.method
    /\ IF rule.exact THEN path = rule.pat
       ELSE Len(path) >= Len(rule.pat) /\ SubSeq(path, 1, Len(rule.pat)) = rule.pat

RefAct(method, path) ==
    LET M == {i \in 1..Len(RefRules) : RefMatches(RefRules[i], method, path)}
    IN  IF M = {} THEN "404"
        ELSE RefRules[CHOOSE i \in M : \A j \in M : i <= j].act

\* A full response with this status text, content type and body.
IsFull(bytes, content_type, body) ==
    /\ HeaderLen(bytes) # 0
    /\ HeadLines(bytes)[1] = <<"H", "T", "T", "P", "/", "1", ".", "1", " ", "2", "0", "0", " ", "O", "K">>
    /\ HeaderValues(bytes, <<"C", "o", "n", "t", "e", "n", "t", "-", "T", "y", "p", "e">>) = <<content_type>>
    /\ BodyOf(bytes) = body

\* bytes is what the reference list answers to req.
RefAnswers(req, bytes) ==
    LET act == RefAct(req.method, req.path)
        ua  == <<"u", "s", "e", "r", "-", "a", "g", "e", "n", "t">>
    IN  CASE act = "200"   -> bytes = <<"H", "T", "T", "P", "/", "1", ".", "1", " ", "2", "0", "0", " ", "O", "K", "\r", "\n", "\r", "\n">>
          [] act = "tail"  -> IsFull(bytes, <<"t", "e", "x", "t", "/", "p", "l", "a", "i", "n">>, SubstrFrom(req.path, 7))
          [] act = "agent" -> IsFull(bytes, <<"t", "e", "x", "t", "/", "p", "l", "a", "i", "n">>,
                                     IF ua \in DOMAIN req.headers THEN req.headers[ua]
                                     ELSE <<"U", "n", "k", "n", "o", "w", "n">>)
          [] act = "file"  -> \/ bytes = <<"H", "T", "T", "P", "/", "1", ".", "1", " ", "4", "0", "4", " ", "N", "o", "t", " ", "F", "o", "u", "n", "d", "\r", "\n", "\r", "\n">>
                              \/ IsFull(bytes, <<"a", "p", "p", "l", "i", "c", "a", "t", "i", "o", "n", "/", "o", "c", "t", "e", "t", "-", "s", "t", "r", "e", "a", "m">>, BodyOf(bytes))
          [] act = "store" -> \/ bytes = <<"H", "T", "T", "P", "/", "1", ".", "1", " ", "2", "0", "1", " ", "C", "r", "e", "a", "t", "e", "d", "\r", "\n", "\r", "\n">>
                              \/ bytes = <<"H", "T", "T", "P", "/", "1", ".", "1", " ", "5", "0", "0", " ", "I", "n", "t", "e", "r", "n", "a", "l", " ", "S", "e", "r", "v", "e", "r", " ", "E", "r", "r", "o", "r", "\r", "\n", "\r", "\n">>
          [] OTHER         -> bytes = <<"H", "T", "T", "P", "/", "1", ".", "1", " ", "4", "0", "4", " ", "N", "o", "t", " ", "F", "o", "u", "n", "d", "\r", "\n", "\r", "\n">>

\* C14: for every method and path parse hands to handle, the response handle
\* sends is the one of the reference decision list evaluated top to bottom,
\* first match winning, and the status-only 404 when no rule matches.
C14_RoutingDecisionList ==
    [][\A s \in Conn :
         SendStep(s) /\ SendOutcome(FdOf(s)) = "ok" =>
            /\ Len(wire'[s]) = Len(wire[s]) + 1
            /\ RefAnswers(request[s], wire'[s][Len(wire'[s])].bytes)]_vars

\* GET /echo, without the slash after echo, was answered with 404.
C14_Witness ==
    \E w \in Range(wire[1]) :
        AnswerTo(w) = 17 /\ w.bytes = <<"H", "T", "T", "P", "/", "1", ".", "1", " ", "4", "0", "4", " ", "N", "o", "t", " ", "F", "o", "u", "n", "d", "\r", "\n", "\r", "\n">>

\* req is a request with this method for a path /files/<name>; its name.
FilesRequest(req, method) ==
    req.method = method /\ Len(req.path) >= 7 /\ SubSeq(req.path, 1, 7) = <<"/", "f", "i", "l", "e", "s", "/">>

NameOf(req) == SubstrFrom(req.path, 8)

\* GET /files/<name> for a name that leads to no file and no directory.
MissingFile(req) ==
    /\ FilesRequest(req, <<"G", "E", "T">>)
    /\ \/ Resolve(NameOf(req)).at = "none"
       \/ Resolve(NameOf(req)).at = "file" /\ Resolve(NameOf(req)).key \notin DOMAIN files

\* POST /files/<name> for a destination that cannot be opened for writing:
\* a directory, or a path through something that is no directory.
UnwritableFile(req) ==
    FilesRequest(req, <<"P", "O", "S", "T">>) /\ Resolve(NameOf(req)).at # "file"

\* C15: GET /files/<name> for a missing file is answered with the status-only
\* 404 and POST /files/<name> for an unwritable destination with the
\* status-only 500: the one attempt to open makes that response (no second
\* attempt), the send that follows puts it on the connection, no file
\* changes in either step, and the session goes on to close or to the next
\* read as the closing flag says (when send does not end the process).
C15_ResourceErrors ==
    [][\A s \in Conn :
         /\ pc[s] = "dispatch" /\ pc'[s] # "dispatch"
            /\ (MissingFile(request[s]) \/ UnwritableFile(request[s])) =>
               /\ files' = files /\ wire' = wire
               /\ pc'[s] = "send"
               /\ response'[s].bytes =
                     IF MissingFile(request[s]) THEN <<"H", "T", "T", "P", "/", "1", ".", "1", " ", "4", "0", "4", " ", "N", "o", "t", " ", "F", "o", "u", "n", "d", "\r", "\n", "\r", "\n">>
                     ELSE <<"H", "T", "T", "P", "/", "1", ".", "1", " ", "5", "0", "0", " ", "I", "n", "t", "e", "r", "n", "a", "l", " ", "S", "e", "r", "v", "e", "r", " ", "E", "r", "r", "o", "r", "\r", "\n", "\r", "\n">>
         /\ SendStep(s) /\ response[s].bytes \in { <<"H", "T", "T", "P", "/", "1", ".", "1", " ", "4", "0", "4", " ", "N", "o", "t", " ", "F", "o", "u", "n", "d", "\r", "\n", "\r", "\n">>,
                                                    <<"H", "T", "T", "P", "/", "1", ".", "1", " ", "5", "0", "0", " ", "I", "n", "t", "e", "r", "n", "a", "l", " ", "S", "e", "r", "v", "e", "r", " ", "E", "r", "r", "o", "r", "\r", "\n", "\r", "\n">> } =>
               /\ files' = files
               /\ SendOutcome(FdOf(s)) # "sigpipe" =>
                     pc'[s] = IF CarriesClose(request[s]) THEN "closing" ELSE "recv"
               /\ SendOutcome(FdOf(s)) = "ok" =>
                     /\ Len(wire'[s]) = Len(wire[s]) + 1
                     /\ Last(wire'[s]).bytes = response[s].bytes]_vars

\* On one connection GET /files/a was answered 404 and the session read on;
\* POST /files/ with Connection: close was answered 500 and the session
\* closed; base_dir holds no file.
C15_Witness ==
    /\ Len(wire[1]) = 2 /\ pc[1] = "done" /\ files = <<>>
    /\ AnswerTo(wire[1][1]) = 4 /\ wire[1][1].bytes = <<"H", "T", "T", "P", "/", "1", ".", "1", " ", "4", "0", "4", " ", "N", "o", "t", " ", "F", "o", "u", "n", "d", "\r", "\n", "\r", "\n">>
    /\ AnswerTo(wire[1][2]) = 8
    /\ wire[1][2].bytes = <<"H", "T", "T", "P", "/", "1", ".", "1", " ", "5", "0", "0", " ", "I", "n", "t", "e", "r", "n", "a", "l", " ", "S", "e", "r", "v", "e", "r", " ", "E", "r", "r", "o", "r", "\r", "\n", "\r", "\n">>

\* The responses sendRaw sends: a status line and a blank line.
StatusOnly ==
    { <<"H", "T", "T", "P", "/", "1", ".", "1", " ", "2", "0", "0", " ", "O", "K", "\r", "\n", "\r", "\n">>, <<"H", "T", "T", "P", "/", "1", ".", "1", " ", "2", "0", "1", " ", "C", "r", "e", "a", "t", "e", "d", "\r", "\n", "\r", "\n">>,
      <<"H", "T", "T", "P", "/", "1", ".", "1", " ", "4", "0", "4", " ", "N", "o", "t", " ", "F", "o", "u", "n", "d", "\r", "\n", "\r", "\n">>, <<"H", "T", "T", "P", "/", "1", ".", "1", " ", "5", "0", "0", " ", "I", "n", "t", "e", "r", "n", "a", "l", " ", "S", "e", "r", "v", "e", "r", " ", "E", "r", "r", "o", "r", "\r", "\n", "\r", "\n">> }

\* bytes are a status line, a Content-Type header, a Content-Length header
\* whose value is the number of bytes after the blank line, a Connection
\* header, the blank line and the body.
Framed(bytes) ==
    LET ls == HeadLines(bytes)
        cl == <<"C", "o", "n", "t", "e", "n", "t", "-", "L", "e", "n", "g", "t", "h", ":", " ">>
    IN  /\ HeaderLen(bytes) # 0
        /\ Len(ls) = 4
        /\ StartsWith(ls[1], <<"H", "T", "T", "P", "/", "1", ".", "1", " ">>)
        /\ StartsWith(ls[2], <<"C", "o", "n", "t", "e", "n", "t", "-", "T", "y", "p", "e", ":", " ">>)
        /\ StartsWith(ls[3], cl)
        /\ stoi(SubstrFrom(ls[3], Len(cl) + 1)).ok
        /\ stoi(SubstrFrom(ls[3], Len(cl) + 1)).val = Len(bytes) - HeaderLen(bytes)
        /\ ls[4] \in { <<"C", "o", "n", "n", "e", "c", "t", "i", "o", "n", ":", " ", "c", "l", "o", "s", "e">>, <<"C", "o", "n", "n", "e", "c", "t", "i", "o", "n", ":", " ", "k", "e", "e", "p", "-", "a", "l", "i", "v", "e">> }

\* C16: every response sendResponse sends is a status line, Content-Type,
\* Content-Length equal to the number of body bytes after the blank line, and
\* a Connection header, for every body: empty, with CR LF, with zero bytes.
C16_ResponseFraming ==
    \A w \in AllWire : w.bytes \notin StatusOnly => Framed(w.bytes)

\* A file holding CR LF was sent back with Content-Length 2.
C16_Witness ==
    \E w \in AllWire :
        /\ AnswerTo(w) = 4 /\ BodyOf(w.bytes) = <<"\r", "\n">>
        /\ HeaderValues(w.bytes, <<"C", "o", "n", "t", "e", "n", "t", "-", "L", "e", "n", "g", "t", "h">>) = << <<"2">> >>

\* Session s waits in a recv that no byte in flight will end: in the loop
\* of parse for body bytes the client has not sent, or for the next request.
Blocked(s) == pc[s] \in {"recv", "body"} /\ inbox[s] = <<>> /\ peer[s] = "open"

\* C17: while the process runs, a connection in the backlog can be accepted
\* whatever the sessions are doing; accepting it starts its own session and
\* changes no other; a failed accept starts none and leaves the loop
\* accepting: every connection of the backlog, the one the accept failed
\* for included, is still there to be accepted.
C17_ListenerIndependence ==
    [][\A c \in Conn :
         /\ alive /\ conn[c] = "pending" => ENABLED Accept(c)
         /\ conn[c] = "pending" /\ conn'[c] = "accepted" =>
               /\ pc'[c] = "recv" /\ client_fd'[c] = c
               /\ \A s \in Conn \ {c} : pc'[s] = pc[s] /\ client_fd'[s] = client_fd[s]
         /\ accepted_fd' = 0 - 1 /\ accepted_fd # 0 - 1 =>
               /\ alive' /\ pc' = pc /\ client_fd' = client_fd
               /\ conn' = conn]_vars

\* Session 1 is stalled in parse on a body that is not complete, and
\* connection 2, which arrived after the accept of 1, is in the backlog
\* after an accept that failed.
C17_Witness ==
    /\ pc[1] = "body" /\ Blocked(1)
    /\ conn[2] = "pending" /\ alive /\ accepted_fd = 0 - 1

\* parse has returned in session s with the request of an upload whose header
\* block came with the first read.
HandedUpload(s) ==
    Parsed(s) /\ cycles[s] # <<>> /\ cycles[s][Len(cycles[s])] \in UploadMenu

\* C18: two sessions that received the same upload (header block in the first
\* read, exactly Content-Length body bytes sent) hand the same body to handle,
\* however the body bytes were divided between the first read and later reads.
C18_ReadGranularityIndependence ==
    \A s \in Conn : \A t \in Conn :
        (/\ HandedUpload(s) /\ HandedUpload(t)
         /\ cycles[s][Len(cycles[s])] = cycles[t][Len(cycles[t])]) =>
            request[s].body = request[t].body

\* C19: after the 404 for a first read without the separator the session
\* goes on to close(client_fd), so what arrives later of that request is not
\* parsed as a new request.
C19_FramingErrorCloses ==
    [][\A s \in Conn : NoSeparator(s) /\ EndsCycle(s) => pc'[s] = "closing"]_vars

\* The first recv of a cycle of session s returns 0 or -1: no byte is in
\* flight and the client has closed or reset the connection.
RecvFails(s) == pc[s] = "recv" /\ inbox[s] = <<>> /\ peer[s] # "open"

\* C20: when the first read of a cycle returns zero or a negative count the
\* session goes to close(client_fd): parse and handle do not run (no request,
\* no cycle, no file changes) and nothing is sent; from there it only closes.
C20_DisconnectInAwaiting ==
    [][\A s \in Conn :
         /\ RecvFails(s) /\ pc'[s] # "recv" =>
               /\ pc'[s] = "closing"
               /\ wire' = wire /\ request' = request /\ cycles' = cycles
               /\ files' = files /\ buffer' = buffer
         /\ pc[s] = "closing" /\ pc'[s] # "closing" =>
               pc'[s] = "done" /\ wire' = wire /\ closes'[s] = closes[s] + 1]_vars

\* A client connected and closed without sending: the session closed after
\* its first recv, with no cycle and nothing sent.
C20_Witness ==
    /\ pc[1] = "done" /\ peer[1] = "fin" /\ closes[1] = 1
    /\ cycles[1] = <<>> /\ wire[1] = <<>> /\ sent[1] = <<>>

\* ------------------------------------------------------------------ C21
\* C21 (termination of a session): under FairSpec, once the peer of a session
\* that waits for a request or for more body bytes has closed or reset the
\* connection, the session eventually leaves its loop and closes the handle,
\* once.
C21_Termination ==
    \A s \in Conn :
        (pc[s] \in {"recv", "body"} /\ peer[s] # "open")
            ~> (pc[s] = "done" /\ closes[s] = 1)

\* ------------------------------------------------------------------ C22
\* Session s waits in parse's read loop for body bytes the client declared
\* and has not delivered, and the client has neither sent more nor closed.
Stalled(s) ==
    /\ pc[s] = "body" /\ already_read[s] < content_length[s]
    /\ inbox[s] = <<>> /\ peer[s] = "open"

\* C22 (no timeout): while the client of a stalled session neither sends nor
\* closes, no step takes the session out of the wait for body bytes: its
\* request is not handed to the router, nothing is written on its
\* connection and its handle is not closed.
C22_NoTimeout ==
    [][\A s \in Conn :
         Stalled(s) /\ inbox'[s] = inbox[s] /\ peer'[s] = peer[s] =>
            /\ pc'[s] = "body" /\ request'[s] = request[s]
            /\ wire'[s] = wire[s] /\ closes'[s] = closes[s]
            /\ ~ENABLED SessionStep(s)]_vars

C22_Witness ==
    /\ Stalled(1) /\ sent[1] # <<>> /\ more_reads[1] = 1
    /\ content_length[1] = 3 /\ already_read[1] = 1
    /\ wire[1] = <<>> /\ closes[1] = 0

\* ------------------------------------------------------------------ C23
\* C23 (end of stream during the body read): when a continuation read returns
\* 0 or an error before content_length bytes are there, parse returns the
\* request with the body received so far and the session dispatches it like
\* any other: a POST /files/<name> truncates the file, stores the truncated
\* body (over an empty file: exactly that body) and sends 201 Created, any
\* other request gets the response of its route.  The response is on the
\* wire when the send succeeds.
C23_EofInBody ==
    [][\A s \in Conn :
         LET name == FileName(request[s].path)
             body == request[s].body
         IN
         /\ pc[s] = "body" /\ pc'[s] # "body" /\ inbox[s] = <<>> =>
               /\ pc'[s] = "dispatch" /\ eof'[s]
               /\ request'[s] = request[s] /\ Len(body) < content_length[s]
               /\ wire' = wire /\ files' = files
         /\ eof[s] /\ pc[s] = "dispatch" /\ pc'[s] # "dispatch" =>
               /\ Route(request[s]) = "post-file" /\ CanOpenWrite(files, name) =>
                     pc'[s] = "post_write" /\ files' = Truncate(files, name)
               /\ Route(request[s]) # "post-file" =>
                     /\ pc'[s] = "send"
                     /\ response'[s].bytes =
                           Respond(request[s], ShouldClose(request[s]), files)
         /\ eof[s] /\ pc[s] = "post_write" /\ pc'[s] # "post_write" =>
               /\ SubSeq(files'[FileKey(name)], 1, Len(body)) = body
               /\ ReadAll(files, name) = <<>> => files'[FileKey(name)] = body
               /\ pc'[s] = "send" /\ response'[s].bytes = sendRaw(Status201)
         /\ eof[s] /\ SendStep(s) /\ SendOutcome(s) = "ok" =>
               Last(wire'[s]).bytes = response[s].bytes]_vars

C23_Witness ==
    /\ eof[1] /\ cycles[1] = <<7>> /\ content_length[1] = 3
    /\ <<"a">> \in DOMAIN files /\ files[<<"a">>] = <<"q">>
    /\ wire[1] # <<>> /\ Last(wire[1]).bytes = sendRaw(Status201)

\* ------------------------------------------------------------------ C24
\* The header lines of request r of the menu as sent (without their CR LF),
\* and for line i with a ": " separator its lowercased name and its value.
SentHeaderLines(r) == Tail(HeadLines(Menu[r]))
Named(r) == {i \in 1..Len(SentHeaderLines(r)) : Find(SentHeaderLines(r)[i], <<":", " ">>) # 0}
SentName(r, i) ==
    LET line == SentHeaderLines(r)[i]
    IN  ToLowerStr(SubSeq(line, 1, Find(line, <<":", " ">>) - 1))
SentValue(r, i) ==
    LET line == SentHeaderLines(r)[i]
    IN  SubstrFrom(line, Find(line, <<":", " ">>) + 2)

\* The header map of a parsed request whose header block came in one read
\* has the lowercased names of the lines with a separator as its keys, each
\* mapped to the value of the last such line.
HeaderMapAsSent(s) ==
    LET r == Last(cycles[s])
        h == request[s].headers
    IN  Parsed(s) /\ cycles[s] # <<>> /\ r # 0 =>
          /\ DOMAIN h = {SentName(r, i) : i \in Named(r)}
          /\ \A k \in DOMAIN h : k = ToLowerStr(k)
          /\ \A i \in Named(r) :
                (\A j \in Named(r) : j > i => SentName(r, j) # SentName(r, i))
                   => h[SentName(r, i)] = SentValue(r, i)
          /\ r = 23 => ShouldClose(request[s])
          /\ r = 25 => ~ShouldClose(request[s])

\* C24 (header map normalisation): keys are lowercase, the last header line
\* of a name wins whatever the case of the name, and a header line without
\* the ": " separator adds no entry and causes no error.
C24_HeaderNormalisation ==
    \A s \in Conn : HeaderMapAsSent(s) /\ pc[s] # "aborted"

\* The part of C24 about the entries of the map.
C24_MapOnly == \A s \in Conn : HeaderMapAsSent(s)

\* ------------------------------------------------------------------ C25
\* The value of the Connection header a response of sendResponse announces.
Announced(bytes) == HeaderValues(bytes, <<"C", "o", "n", "n", "e", "c", "t", "i", "o", "n">>)

\* C25 (the Connection header matches the closing flag): a response written
\* by sendResponse carries "Connection: close" when the request of its cycle
\* has a connection header equal to close and "Connection: keep-alive"
\* otherwise, and after the response the session closes when it announced
\* close and reads the next request when it announced keep-alive.
C25_ConnectionHeader ==
    [][\A s \in Conn :
         SendStep(s) /\ Len(wire'[s]) > Len(wire[s])
                     /\ Last(wire'[s]).bytes \notin StatusOnly =>
            LET bytes == Last(wire'[s]).bytes IN
            /\ Announced(bytes) = IF CarriesClose(request[s])
                                  THEN << <<"c", "l", "o", "s", "e">> >> ELSE << <<"k", "e", "e", "p", "-", "a", "l", "i", "v", "e">> >>
            /\ Announced(bytes) = << <<"c", "l", "o", "s", "e">> >> => pc'[s] = "closing"
            /\ Announced(bytes) = << <<"k", "e", "e", "p", "-", "a", "l", "i", "v", "e">> >> => pc'[s] = "recv" /\ closes'[s] = 0]_vars

\* One session answered an upload, stayed open, announced close in its
\* second response and closed after it.
C25_Witness ==
    /\ cycles[1] = <<3, 2>> /\ Len(wire[1]) = 2 /\ pc[1] = "done" /\ closes[1] = 1
    /\ wire[1][1].bytes = sendRaw(Status201)
    /\ Announced(wire[1][2].bytes) = << <<"c", "l", "o", "s", "e">> >>

\* ------------------------------------------------------------------ C26
\* The last response of session s is the 201 Created of its latest cycle.
Uploaded(s) ==
    /\ wire[s] # <<>> /\ Last(wire[s]).bytes = sendRaw(Status201)
    /\ Last(wire[s]).sess = s /\ Last(wire[s]).cycle = Len(cycles[s])

\* C26 (POST overwrites): with one session at work, after a POST
\* /files/<name> answered 201 Created the file holds exactly the body handed
\* to the handler, whatever it held before: nothing is appended and no tail
\* of a longer previous file is left, so that repeating the upload leaves
\* the same file and a second upload leaves the second body.
C26_PostOverwrites ==
    scenario # "concurrent" =>
        \A s \in Conn :
            Uploaded(s) =>
               /\ FileKey(FileName(request[s].path)) \in DOMAIN files
               /\ files[FileKey(FileName(request[s].path))] = request[s].body

\* The file a held "olds" when the server started and holds "xy" now.
C26_Witness ==
    /\ scenario = "preloaded" /\ Uploaded(1) /\ cycles[1] = <<3>>
    /\ InitialFiles(scenario)[<<"a">>] = <<"o", "l", "d", "s">> /\ files[<<"a">>] = <<"x", "y">>

\* ------------------------------------------------------------------ C27
\* The responses on connection c answer cycles of session c, each cycle at
\* most once, in the order of the cycles, and no cycle not yet read.
InCycleOrder(c) ==
    /\ Len(wire[c]) <= Len(cycles[c])
    /\ \A i \in 1..Len(wire[c]) :
          /\ wire[c][i].sess = c
          /\ wire[c][i].cycle \in 1..Len(cycles[c])
          /\ \A j \in 1..Len(wire[c]) : i < j => wire[c][i].cycle < wire[c][j].cycle

\* C27 (one response per dispatched request, in order): the step that ends
\* an invocation of handle sends once (one response more on the connection
\* when the send succeeds), no other step writes on the connection, the
\* first read of a cycle happens when no invocation of handle is pending,
\* and the responses follow the order of the requests and are no more than
\* the requests parsed.
C27_OneResponsePerRequest ==
    [][\A s \in Conn :
         /\ SendStep(s) =>
               /\ Len(wire'[s]) = Len(wire[s]) + (IF SendOutcome(s) = "ok" THEN 1 ELSE 0)
               /\ SubSeq(wire'[s], 1, Len(wire[s])) = wire[s]
               /\ SendOutcome(s) = "ok" => Last(wire'[s]).cycle = Len(cycles[s])
         /\ ~SendStep(s) => wire'[s] = wire[s]
         /\ Len(cycles'[s]) > Len(cycles[s]) =>
               /\ pc[s] = "recv" /\ Len(cycles'[s]) = Len(cycles[s]) + 1
               /\ wire'[s] = wire[s]
         /\ InCycleOrder(s)']_vars

\* Two requests on one connection, answered one after the other.
C27_Witness ==
    /\ cycles[1] = <<3, 4>> /\ Len(wire[1]) = 2
    /\ wire[1][1].cycle = 1 /\ wire[1][1].bytes = sendRaw(Status201)
    /\ wire[1][2].cycle = 2 /\ BodyOf(wire[1][2].bytes) = <<"x", "y">>

\* ------------------------------------------------------------------ C28
\* C28 (cycle independence): the request of a cycle is what parse makes of
\* the bytes of the cycle's first read alone, extended by the bytes of its
\* further reads and by nothing else; so are content_length and the closing
\* flag.  Whatever an earlier cycle left (a longer request in the buffer,
\* its headers, its flag) has no part in it, and the buffer is clear when a
\* further cycle starts.
C28_CycleIndependence ==
    [][\A s \in Conn :
         LET n     == Len(inbox[s]) - Len(inbox'[s])
             bytes == SubSeq(inbox[s], 1, n)
             ph    == ParseHead(bytes)
         IN
         /\ Len(cycles'[s]) > Len(cycles[s]) /\ pc'[s] \in {"body", "dispatch"} =>
               /\ request'[s] = ph.request
               /\ content_length'[s] = ph.content_length
               /\ already_read'[s] = ph.already_read
               /\ ShouldClose(request'[s]) = ShouldClose(ph.request)
         /\ pc[s] = "body" /\ request'[s] # request[s] =>
               request'[s] = [request[s] EXCEPT !.body = @ \o bytes]
         /\ pc[s] \notin {"recv", "body"} => request'[s] = request[s]
         /\ pc'[s] = "recv" => buffer'[s] = <<>>]_vars

\* A request without headers and body parsed after an upload on the same
\* connection.
C28_Witness ==
    /\ cycles[1] = <<3, 1>> /\ Parsed(1) /\ Len(wire[1]) = 1
    /\ request[1].headers = <<>> /\ request[1].body = <<>>
    /\ content_length[1] = 0 /\ ~ShouldClose(request[1])

\* ------------------------------------------------------------------ C29
\* A download of file a answered 200 read the file while no upload of it was
\* between its open and its write.
DownloadsWhole ==
    \A w \in AllWire :
        AnswerTo(w) = 4 /\ w.bytes # sendRaw(Status404) /\ <<"a">> \in DOMAIN w.saw
            => w.saw[<<"a">>] # 0

\* After uploads by both sessions the file is the body of one of them.
UploadsWhole ==
    Uploaded(1) /\ Uploaded(2)
    /\ FileKey(FileName(request[1].path)) = FileKey(FileName(request[2].path))
        => files[FileKey(FileName(request[1].path))] \in {request[1].body, request[2].body}

\* C29 (file access is atomic across sessions): a GET of a file that runs
\* while another session POSTs the same name returns the complete previous
\* contents (or 404) or the complete new body, never an empty or partly
\* written file; two concurrent POSTs of one name leave one of the two
\* bodies in full.
C29_FileAtomicity == DownloadsWhole /\ UploadsWhole

\* ------------------------------------------------------------------ C30
\* The files f and g differ at most in the file name.
SameBut(f, g, name) ==
    \A k \in (DOMAIN f \cup DOMAIN g) \ {name} :
        k \in DOMAIN f /\ k \in DOMAIN g /\ f[k] = g[k]

\* C30 (filesystem frame): a step that changes the files of the base
\* directory is a step of the handler for a POST /files/<name> request and
\* changes the file <name> only; the handler of any other request (root,
\* echo, user-agent, GET /files/..., the default) and every other step leave
\* the files as they are.
C30_FilesystemFrame ==
    [][/\ files' # files =>
            \E s \in Conn :
                /\ pc[s] \in {"dispatch", "post_write"} /\ pc'[s] # pc[s]
                /\ FilesRequest(request[s], POST)
                /\ SameBut(files, files', FileKey(NameOf(request[s])))
       /\ \A s \in Conn :
            pc[s] = "dispatch" /\ pc'[s] # pc[s] /\ ~FilesRequest(request[s], POST)
                => files' = files]_vars

\* An upload to a changed a and left b; the server started with both.
C30_Witness ==
    /\ scenario = "preloaded" /\ cycles[1] = <<7>> /\ Uploaded(1)
    /\ files = (<<"a">> :> <<"q">>) @@ (<<"b">> :> <<"k">>)

\* ------------------------------------------------------------------ C31
\* C31 (read buffer bounds): the first read of a cycle returns at most
\* BufSize - 1 bytes, so the array with the terminator parse writes at index
\* bytes_read still has at most BufSize bytes, and what parse takes from the
\* array (the request line, the headers and the body bytes counted in
\* already_read) lies before that terminator.
C31_ReadBufferBounds ==
    \A s \in Conn :
        LET bytes_read == Len(buffer[s]) IN
        /\ bytes_read <= BufSize - 1
        /\ Len(Terminated(buffer[s], bytes_read)) <= BufSize
        /\ Len(CString(Terminated(buffer[s], bytes_read))) <= bytes_read
        /\ pc[s] \in {"body", "dispatch"} /\ more_reads[s] = 0 =>
              /\ already_read[s] <= bytes_read
              /\ request[s] = ParseHead(SubSeq(buffer[s], 1, bytes_read)).request

\* A first read filled the buffer to its last byte but one, and bytes of the
\* request are still to come.
C31_Witness ==
    /\ cycles[1] = <<27>> /\ pc[1] = "body" /\ more_reads[1] = 0
    /\ Len(buffer[1]) = BufSize - 1 /\ Len(inbox[1]) = 2
    /\ already_read[1] = 2 /\ content_length[1] = 4

====
